---- MODULE Spec2Model ----
(***************************************************************************)
(* Model of the HackTheAgent workflow orchestrator                         *)
(* (backend/app/orchestrator.py) with the collaborators it drives: the     *)
(* IBM Orchestrate client, the semantic search engine, the RAG engine, the *)
(* threat detector and the SQLite persistence layer.                       *)
(*                                                                         *)
(* Every call of execute_workflow is an asyncio task.  A task keeps the    *)
(* event loop until it awaits something that really suspends: the HTTP     *)
(* call of the IBM Orchestrate client and asyncio.gather.  The variable    *)
(* "running" is the task that holds the event loop.                        *)
(***************************************************************************)
EXTENDS Integers, Sequences, FiniteSets, TLC

(* ------------------------------ bounds -------------------------------- *)
\* number of execute_workflow calls made on the orchestrator
MaxCalls == 2
\* number of collaborator failures injected into one run
MaxFaults == 1
\* number of re-runs of the persistence step in PersistSpec
MaxReruns == 3

Calls == 1..MaxCalls
NoCall == 0

(* --------------------------- small helpers ---------------------------- *)
\* Python None
None == "None"
\* None where a step, a result or a time is expected
NoStep == [step_id |-> None]
NoResult == [none |-> None]
NoTime == -1
\* Python {} (the metadata of a step that never got one)
EmptyDict == [k \in {} |-> None]
\* dict.get(key, default)
DictGet(d, key, default) == IF key \in DOMAIN d THEN d[key] ELSE default
\* dict[key] = value
DictPut(d, key, value) ==
    [k \in (DOMAIN d) \cup {key} |-> IF k = key THEN value ELSE d[k]]
Min(a, b) == IF a <= b THEN a ELSE b
\* seq[:n]
Take(seq, n) == SubSeq(seq, 1, Min(n, Len(seq)))
Range(seq) == {seq[i] : i \in DOMAIN seq}
\* str.startswith
StartsWith(s, prefix) ==
    /\ Len(s) >= Len(prefix)
    /\ SubSeq(s, 1, Len(prefix)) = prefix

(* ------------------------- WorkflowStatus ----------------------------- *)
PENDING == "pending"
RUNNING == "running"
COMPLETED == "completed"
ERROR == "error"
WorkflowStatus == {PENDING, RUNNING, COMPLETED, ERROR}

\* WorkflowStep(step_id=..., agent=..., description=...): status PENDING,
\* no result, no error, empty metadata
WorkflowStep(step_id) ==
    [step_id |-> step_id, status |-> PENDING, result |-> None,
     error |-> None, metadata |-> EmptyDict]

\* WorkflowExecution(execution_id=..., intent=...) with the dataclass
\* defaults; start_time is read from the clock at construction
WorkflowExecution(execution_id, intent, clock) ==
    [execution_id |-> execution_id, intent |-> intent, steps |-> <<>>,
     status |-> PENDING, result |-> NoResult, error |-> None,
     start_time |-> clock, end_time |-> NoTime, duration_ms |-> NoTime]

(* ------------------------------ settings ------------------------------ *)
\* the configurations the orchestrator is run under. Settings as config.py
\* declares it has no orchestrator_api_key and no orchestrator_base_url
\* field, so reading either raises AttributeError (has_orchestrator_fields
\* FALSE); the process then runs workflows only when the import of
\* app.ibm_orchestrate failed (ibm_orchestrate_importable FALSE), which
\* short-circuits the key check. The other choices are a Settings that
\* declares the two fields every reader of them expects: the credentials
\* unset, the placeholder of the sample .env, real without a base URL, real.
\* llm_available: an LLM provider is configured for the RAG engine
SettingsChoices ==
    { [has_orchestrator_fields |-> FALSE, ibm_orchestrate_importable |-> TRUE,
       orchestrator_api_key |-> "", orchestrator_base_url |-> "",
       llm_available |-> FALSE],
      [has_orchestrator_fields |-> FALSE, ibm_orchestrate_importable |-> FALSE,
       orchestrator_api_key |-> "", orchestrator_base_url |-> "",
       llm_available |-> TRUE],
      [has_orchestrator_fields |-> TRUE, ibm_orchestrate_importable |-> TRUE,
       orchestrator_api_key |-> "", orchestrator_base_url |-> "https://wxo",
       llm_available |-> FALSE],
      [has_orchestrator_fields |-> TRUE, ibm_orchestrate_importable |-> TRUE,
       orchestrator_api_key |-> "your-api-key", orchestrator_base_url |-> "https://wxo",
       llm_available |-> TRUE],
      [has_orchestrator_fields |-> TRUE, ibm_orchestrate_importable |-> TRUE,
       orchestrator_api_key |-> "live-key-0123456789", orchestrator_base_url |-> "",
       llm_available |-> FALSE],
      [has_orchestrator_fields |-> TRUE, ibm_orchestrate_importable |-> TRUE,
       orchestrator_api_key |-> "live-key-0123456789", orchestrator_base_url |-> "https://wxo",
       llm_available |-> TRUE] }

\* the import of app.ibm_orchestrate succeeded
IBM_ORCHESTRATE_AVAILABLE(s) == s.ibm_orchestrate_importable

MinKeyLen == 10

\* execute_workflow: is_valid_orchestrator_key
is_valid_orchestrator_key(s) ==
    /\ IBM_ORCHESTRATE_AVAILABLE(s)
    /\ s.orchestrator_api_key # ""
    /\ ~StartsWith(s.orchestrator_api_key, "your-")
    /\ Len(s.orchestrator_api_key) > MinKeyLen

\* get_orchestrate_client: None unless both credentials are configured
get_orchestrate_client(s) ==
    IF s.orchestrator_api_key = "" \/ s.orchestrator_base_url = ""
    THEN None ELSE "client"

(* ------------------------------ strings ------------------------------- *)
\* the letters str.lower() changes in the texts of this model
UpperCase == <<"A","B","C","D","E","F","G","H","I","J","K","L","M",
               "N","O","P","Q","R","S","T","U","V","W","X","Y","Z">>
LowerCase == <<"a","b","c","d","e","f","g","h","i","j","k","l","m",
               "n","o","p","q","r","s","t","u","v","w","x","y","z">>
LowerChar(c) ==
    IF c \in {"A","B","C","D","E","F","G","H","I","J","K","L","M",
              "N","O","P","Q","R","S","T","U","V","W","X","Y","Z"}
    THEN LowerCase[CHOOSE i \in DOMAIN UpperCase : UpperCase[i] = c]
    ELSE c
RECURSIVE LowerFrom(_, _)
LowerFrom(s, i) ==
    IF i > Len(s) THEN ""
    ELSE LowerChar(SubSeq(s, i, i)) \o LowerFrom(s, i + 1)
\* str.lower()
Lower(s) == LowerFrom(s, 1)
\* word in text
Contains(text, word) ==
    \E i \in 1..(Len(text) - Len(word) + 1) :
        SubSeq(text, i, i + Len(word) - 1) = word
\* any(word in text for word in words)
ContainsAny(text, words) == \E w \in words : Contains(text, w)

(* --------------------- intent and query enhancement ------------------- *)
\* the requests submitted to execute_workflow
Requests ==
    { [query |-> "find notes", top_k |-> 3, enable_rag |-> TRUE],
      [query |-> "URGENT bills", top_k |-> 2, enable_rag |-> FALSE] }

\* DetectIntent trying the sender rule before the analysis rule
DetectIntentSenderFirst(query) ==
    LET query_lower == Lower(query) IN
    IF ContainsAny(query_lower, {"summarize", "summary", "overview", "what are"})
    THEN "summarization"
    ELSE IF ContainsAny(query_lower, {"who", "from", "sender"})
    THEN "sender_analysis"
    ELSE IF ContainsAny(query_lower, {"count", "how many", "statistics", "analyze"})
    THEN "analysis"
    ELSE IF ContainsAny(query_lower, {"when", "date", "time"})
    THEN "temporal_search"
    ELSE "search"
\* _step_intent_detection: the keyword rules, first match wins
DetectIntent(query) ==
    LET query_lower == Lower(query) IN
    IF ContainsAny(query_lower, {"summarize", "summary", "overview", "what are"})
    THEN "summarization"
    ELSE IF ContainsAny(query_lower, {"count", "how many", "statistics", "analyze"})
    THEN "analysis"
    ELSE IF ContainsAny(query_lower, {"who", "from", "sender"})
    THEN "sender_analysis"
    ELSE IF ContainsAny(query_lower, {"when", "date", "time"})
    THEN "temporal_search"
    ELSE "search"

\* _step_intent_detection: the step it returns (nothing in it can raise for
\* a str query)
_step_intent_detection(query) ==
    LET intent_type == DetectIntent(query) IN
    [WorkflowStep("step_1_intent") EXCEPT
        !.metadata = [intent_type |-> intent_type, confidence |-> 95],
        !.result = "Detected intent type: " \o intent_type,
        !.status = COMPLETED]

\* _enhance_search_query
_enhance_search_query(query, intent_type) ==
    LET query_lower == Lower(query) IN
    IF ContainsAny(query_lower, {"critical", "urgent", "important"})
    THEN query \o " urgent asap important priority"
    ELSE IF ContainsAny(query_lower, {"security", "vulnerability", "vulnerable"})
    THEN query \o " CVE critical vulnerability patch security alert threat"
    ELSE IF ContainsAny(query_lower, {"bug", "issue", "error"})
    THEN query \o " fix bug error authentication failure"
    ELSE query

(* ------------------------------ the chunker ---------------------------- *)
\* settings.chunk_size and settings.chunk_overlap
DefaultChunkSize == 500
DefaultChunkOverlap == 50
\* iterations of the chunking loop that are followed
MaxChunks == 16

\* a Python slice index brought into 0..n
SliceIndex(i, n) ==
    IF i < 0 THEN (IF i + n < 0 THEN 0 ELSE i + n) ELSE Min(i, n)
\* text[lo:hi]
Slice(text, lo, hi) ==
    LET from == SliceIndex(lo, Len(text))
        to == SliceIndex(hi, Len(text))
    IN IF from >= to THEN "" ELSE SubSeq(text, from + 1, to)
\* str.rfind of a character: the last 0-based position, or -1
rfind(s, c) ==
    IF \E i \in 1..Len(s) : SubSeq(s, i, i) = c
    THEN (CHOOSE i \in 1..Len(s) :
              /\ SubSeq(s, i, i) = c
              /\ \A j \in (i + 1)..Len(s) : SubSeq(s, j, j) # c) - 1
    ELSE -1
Max(a, b) == IF a >= b THEN a ELSE b
\* str.strip()
Strip(s) ==
    IF \A i \in 1..Len(s) : SubSeq(s, i, i) \in {" ", "\t", "\n"} THEN ""
    ELSE LET first == CHOOSE i \in 1..Len(s) :
                         /\ SubSeq(s, i, i) \notin {" ", "\t", "\n"}
                         /\ \A j \in 1..(i - 1) : SubSeq(s, j, j) \in {" ", "\t", "\n"}
             last == CHOOSE i \in 1..Len(s) :
                         /\ SubSeq(s, i, i) \notin {" ", "\t", "\n"}
                         /\ \A j \in (i + 1)..Len(s) : SubSeq(s, j, j) \in {" ", "\t", "\n"}
         IN SubSeq(s, first, last)
\* x or default
OrDefault(x, default) == IF x = 0 THEN default ELSE x

\* the locals of _chunk_text when the loop is entered; windows keeps the
\* (start, end) pair of every chunk appended
ChunkLoopEntry == [pc |-> "loop", start |-> 0, chunks |-> <<>>, windows |-> <<>>]

\* one iteration of the while loop of _chunk_text
ChunkIteration(text, chunk_size, overlap, st) ==
    LET cs == OrDefault(chunk_size, DefaultChunkSize)
        ov == OrDefault(overlap, DefaultChunkOverlap)
        end0 == st.start + cs
        chunk0 == Slice(text, st.start, end0)
        break_point == Max(rfind(chunk0, "."), rfind(chunk0, "\n"))
        broken == end0 < Len(text) /\ 2 * break_point > cs
        chunk == IF broken THEN Slice(chunk0, 0, break_point + 1) ELSE chunk0
        end == IF broken THEN st.start + break_point + 1 ELSE end0
    IN [st EXCEPT !.chunks = Append(@, Strip(chunk)),
                  !.windows = Append(@, <<st.start, end>>),
                  !.start = end - ov]

\* the while loop, followed for at most MaxChunks iterations
RECURSIVE ChunkLoop(_, _, _, _)
ChunkLoop(text, chunk_size, overlap, st) ==
    IF st.start >= Len(text) THEN [st EXCEPT !.pc = "returned"]
    ELSE IF Len(st.chunks) >= MaxChunks THEN st
    ELSE ChunkLoop(text, chunk_size, overlap,
                   ChunkIteration(text, chunk_size, overlap, st))

\* _chunk_text: the list of chunks (the loop is left within MaxChunks
\* iterations for the default sizes and the texts indexed here)
_chunk_text(text, chunk_size, overlap) ==
    IF Len(text) <= OrDefault(chunk_size, DefaultChunkSize) THEN <<text>>
    ELSE ChunkLoop(text, chunk_size, overlap, ChunkLoopEntry).chunks

(* --------------------------- the vector index -------------------------- *)
\* the chunk records of the indexed collection: two chunks of message m1
\* and one of message m2
IndexedChunks ==
    << [chunk_id |-> "m1_chunk_0", email_id |-> "m1",
        subject |-> "paypa1 Act Now", date |-> "2024-01-01",
        chunk_index |-> 0, total_chunks |-> 2,
        document |-> "http://bit.ly/a http://1.2.3.4"],
       [chunk_id |-> "m1_chunk_1", email_id |-> "m1",
        subject |-> "paypa1 Act Now", date |-> "2024-01-01",
        chunk_index |-> 1, total_chunks |-> 2,
        document |-> "see http://x.co/c"],
       [chunk_id |-> "m2_chunk_0", email_id |-> "m2",
        subject |-> "Team sync", date |-> "2024-01-02",
        chunk_index |-> 0, total_chunks |-> 1,
        document |-> "agenda"] >>

\* the collection the workflow is run against: nothing is indexed yet in
\* the configuration whose orchestrator key is unset, the three chunks
\* otherwise
CollectionOf(s) ==
    IF s.has_orchestrator_fields /\ s.orchestrator_api_key = ""
    THEN <<>> ELSE IndexedChunks

\* the opaque embedding of a text, and the cosine distance (in hundredths,
\* 0..200) the vector store reports between a query and a chunk
encode(text) == Len(text) % 3
CosineDistance(query, i) == (((encode(query) + i) % 3) * 55) + 5

\* the chunk positions of a collection by increasing distance to the query,
\* ties in insertion order
RECURSIVE NearestFrom(_, _, _)
NearestFrom(coll, query, left) ==
    IF left = {} THEN <<>>
    ELSE LET best == CHOOSE i \in left :
                        \A j \in left :
                            \/ CosineDistance(query, i) < CosineDistance(query, j)
                            \/ /\ CosineDistance(query, i) = CosineDistance(query, j)
                               /\ i <= j
         IN <<best>> \o NearestFrom(coll, query, left \ {best})

SnippetMax == 200

\* search asking the store for one result whatever top_k is
search_first_only(coll, query, top_k) ==
    LET collection_count == Len(coll)
        actual_top_k == 1
        hits == Take(NearestFrom(coll, query, DOMAIN coll), actual_top_k)
    IN IF collection_count = 0 THEN <<>>
       ELSE [n \in DOMAIN hits |->
               LET c == coll[hits[n]]
                   distance == CosineDistance(query, hits[n])
               IN [id |-> c.email_id, subject |-> c.subject, date |-> c.date,
                   score |-> 100 - distance,
                   snippet |-> IF Len(c.document) > SnippetMax
                               THEN SubSeq(c.document, 1, SnippetMax) \o "..."
                               ELSE c.document]]

\* SemanticSearchEngine.search: the SearchResult list for a query
search(coll, query, top_k) ==
    LET collection_count == Len(coll)
        actual_top_k == IF collection_count > 0 THEN Min(top_k, collection_count) ELSE 1
        hits == Take(NearestFrom(coll, query, DOMAIN coll), actual_top_k)
    IN IF collection_count = 0 THEN <<>>
       ELSE [n \in DOMAIN hits |->
               LET c == coll[hits[n]]
                   distance == CosineDistance(query, hits[n])
               IN [id |-> c.email_id, subject |-> c.subject, date |-> c.date,
                   score |-> 100 - distance,
                   snippet |-> IF Len(c.document) > SnippetMax
                               THEN SubSeq(c.document, 1, SnippetMax) \o "..."
                               ELSE c.document]]

\* the handle self.collection of an engine whose collection was deleted
\* and not created again
StaleHandle == << [chunk_id |-> None] >>
\* an exception leaves the call
Raised == [raised |-> TRUE]

\* index_messages numbering the chunks of a message from 1
ChunkRecordsFromOne(msg) ==
    LET chunks == _chunk_text(msg.text, 0, 0) IN
    [i \in DOMAIN chunks |->
        [chunk_id |-> msg.id \o "_chunk_" \o ToString(i), email_id |-> msg.id,
         subject |-> msg.subject, date |-> msg.date,
         chunk_index |-> i, total_chunks |-> Len(chunks),
         document |-> chunks[i]]]
\* index_messages: the ids, documents and metadata built for a message
ChunkRecords(msg) ==
    LET chunks == _chunk_text(msg.text, 0, 0) IN
    [i \in DOMAIN chunks |->
        [chunk_id |-> msg.id \o "_chunk_" \o ToString(i - 1), email_id |-> msg.id,
         subject |-> msg.subject, date |-> msg.date,
         chunk_index |-> i - 1, total_chunks |-> Len(chunks),
         document |-> chunks[i]]]
RECURSIVE AllChunkRecords(_)
AllChunkRecords(messages) ==
    IF messages = <<>> THEN <<>>
    ELSE ChunkRecords(Head(messages)) \o AllChunkRecords(Tail(messages))

\* what collection.add does with an id the collection already holds: the
\* vector store rejects the batch, or it leaves the stored record alone and
\* adds the others, depending on its version; in neither case is a stored
\* record replaced
OnExisting == {"raise", "ignore"}
CollectionIds(coll) == {coll[i].chunk_id : i \in DOMAIN coll}
IsNewId(coll, record) == record.chunk_id \notin CollectionIds(coll)
RECURSIVE SelectNew(_, _)
SelectNew(coll, records) ==
    IF records = <<>> THEN <<>>
    ELSE (IF IsNewId(coll, Head(records)) THEN <<Head(records)>> ELSE <<>>)
            \o SelectNew(coll, Tail(records))

\* index_messages: the collection afterwards and what the call returns
index_messages(coll, messages, on_existing) ==
    LET records == AllChunkRecords(messages)
        fresh == SelectNew(coll, records)
    IN IF coll = StaleHandle \/ (fresh # records /\ on_existing = "raise")
       THEN [collection |-> coll, returns |-> Raised]
       ELSE [collection |-> coll \o fresh,
             returns |-> [chunks_indexed |-> Len(records),
                          messages_indexed |-> Len(messages)]]

\* reset_collection: what delete_collection and create_collection meet
ResetOutcomes == {"ok", "delete_fails", "create_fails"}
\* reset_collection: the handle afterwards and the value returned
reset_collection(coll, outcome) ==
    IF coll = StaleHandle \/ outcome = "delete_fails"
    THEN [collection |-> coll, returns |-> FALSE]
    ELSE IF outcome = "create_fails"
    THEN [collection |-> StaleHandle, returns |-> FALSE]
    ELSE [collection |-> <<>>, returns |-> TRUE]

(* --------------------------- threat detection -------------------------- *)
TRUSTED_DOMAINS ==
    {"gmail.com", "outlook.com", "yahoo.com", "icloud.com", "protonmail.com",
     "ibm.com", "google.com", "microsoft.com", "apple.com", "amazon.com",
     "github.com", "linkedin.com", "slack.com", "zoom.com", "stripe.com"}
PHISHING_KEYWORDS ==
    {"verify your account", "confirm your identity", "update your password",
     "unusual activity", "click here immediately", "act now",
     "urgent action required", "suspended account", "limited time",
     "rare opportunity", "claim reward", "congratulations you won",
     "tax refund", "nigerian prince", "wire transfer"}
SUSPICIOUS_TLDS == {".tk", ".ml", ".ga", ".cf", ".info", ".biz", ".pw", ".xyz"}

CharAt(s, i) == IF i >= 1 /\ i <= Len(s) THEN SubSeq(s, i, i) ELSE ""
IsDigit(c) == c \in {"0","1","2","3","4","5","6","7","8","9"}
IsSpace(c) == c \in {" ", "\t", "\n"}
EndsWith(s, suffix) ==
    /\ Len(s) >= Len(suffix)
    /\ SubSeq(s, Len(s) - Len(suffix) + 1, Len(s)) = suffix
\* sender.split('@')[-1]
AfterLastAt(s) ==
    IF Contains(s, "@")
    THEN LET i == CHOOSE k \in 1..Len(s) :
                     /\ CharAt(s, k) = "@"
                     /\ \A m \in (k + 1)..Len(s) : CharAt(s, m) # "@"
         IN SubSeq(s, i + 1, Len(s))
    ELSE s

\* _check_phishing_keywords: one indicator when a keyword occurs
_check_phishing_keywords(text) ==
    IF ContainsAny(text, PHISHING_KEYWORDS)
    THEN << [type |-> "phishing", severity |-> "HIGH"] >>
    ELSE <<>>

\* KNOWN_PHISHING_PATTERNS searched in the sender domain
MatchesPhishingDomain(domain) ==
    ContainsAny(domain, {"paypal.", "paypai.", "amazon-security",
                         "apple-id-verification", "microsoft-account",
                         "gmail-verify", "tax-refund"})

\* _check_sender_domain: a sequence of at most one indicator
_check_sender_domain(sender) ==
    IF sender = "" \/ ~Contains(sender, "@") THEN <<>>
    ELSE LET domain == AfterLastAt(sender) IN
         IF domain \in TRUSTED_DOMAINS THEN <<>>
         ELSE IF \E tld \in SUSPICIOUS_TLDS : EndsWith(domain, tld)
         THEN << [type |-> "suspicious_domain", severity |-> "MEDIUM"] >>
         ELSE IF MatchesPhishingDomain(domain)
         THEN << [type |-> "phishing", severity |-> "CRITICAL"] >>
         ELSE <<>>

\* re.findall(r'https?://[^\s\)]+', text)
UrlPrefixAt(text, i) ==
    IF SubSeq(text, i, Min(i + 6, Len(text))) = "http://" THEN 7
    ELSE IF SubSeq(text, i, Min(i + 7, Len(text))) = "https://" THEN 8
    ELSE 0
UrlEnd(text, from) ==
    IF \E j \in from..Len(text) : IsSpace(CharAt(text, j)) \/ CharAt(text, j) = ")"
    THEN CHOOSE j \in from..Len(text) :
            /\ IsSpace(CharAt(text, j)) \/ CharAt(text, j) = ")"
            /\ \A m \in from..(j - 1) : ~(IsSpace(CharAt(text, m)) \/ CharAt(text, m) = ")")
    ELSE Len(text) + 1
RECURSIVE FindUrls(_, _)
FindUrls(text, i) ==
    IF i > Len(text) THEN <<>>
    ELSE LET n == UrlPrefixAt(text, i)
             stop == UrlEnd(text, i + n)
         IN IF n > 0 /\ stop > i + n
            THEN <<SubSeq(text, i, stop - 1)>> \o FindUrls(text, stop)
            ELSE FindUrls(text, i + 1)

\* [0-9]{1,3}\.[0-9]{1,3}\.[0-9]{1,3}\.[0-9]{1,3} matched at position i
RECURSIVE OctetsAt(_, _, _)
OctetsAt(url, i, k) ==
    \E n \in 1..3 :
        /\ \A m \in i..(i + n - 1) : IsDigit(CharAt(url, m))
        /\ \/ k = 1
           \/ /\ CharAt(url, i + n) = "."
              /\ OctetsAt(url, i + n + 1, k - 1)
\* "a" then later "b" (the regex a.*?b)
ContainsThen(url, a, b) ==
    \E i \in 1..Len(url) :
        /\ SubSeq(url, i, Min(i + Len(a) - 1, Len(url))) = a
        /\ Contains(SubSeq(url, i + Len(a), Len(url)), b)
\* MALICIOUS_URL_PATTERNS searched in a URL
IsMaliciousUrl(url) ==
    \/ ContainsAny(url, {"bit.ly/", "tinyurl/", "shortened/", "x.co/"})
    \/ \E i \in 1..Len(url) : OctetsAt(url, i, 4)
    \/ ContainsThen(url, "eval", ".js")
    \/ ContainsThen(url, "password", "reset")

\* _check_urls: one indicator per URL occurrence that matches a pattern
_check_urls(text) ==
    LET urls == FindUrls(text, 1) IN
    [n \in DOMAIN SelectSeq(urls, IsMaliciousUrl) |->
        [type |-> "suspicious_url", severity |-> "HIGH"]]

\* _check_typosquatting
_check_typosquatting(sender, subject) ==
    LET suspicious_text == Lower(sender \o " " \o subject) IN
    IF ContainsAny(suspicious_text,
                   {"gmial", "gmai.l", "redditt", "twiiter", "paypa1",
                    "instgram", "linkedIn", "amaz0n"})
    THEN << [type |-> "typosquatting", severity |-> "HIGH"] >>
    ELSE <<>>

\* _check_spoofing
_check_spoofing(sender, subject) ==
    LET domain == IF Contains(sender, "@") THEN AfterLastAt(sender) ELSE "" IN
    IF \E company \in {"amazon", "apple", "microsoft", "google", "ibm", "paypal"} :
          /\ Contains(subject, company) \/ Contains(sender, company)
          /\ domain # ""
          /\ ~Contains(domain, company)
          /\ domain \notin TRUSTED_DOMAINS
    THEN << [type |-> "spoofing", severity |-> "CRITICAL"] >>
    ELSE <<>>

\* _calculate_threat_level, the score in hundredths
_calculate_threat_level(score) ==
    IF score >= 75 THEN "CRITICAL"
    ELSE IF score >= 50 THEN "WARNING"
    ELSE IF score >= 25 THEN "CAUTION"
    ELSE "SAFE"

\* analyze with the normalisation min(threat_score, 1.0) left out
analyze_unclamped(email) ==
    LET sender == Lower(email.from)
        subject == Lower(email.subject)
        body == Lower(email.body)
        keyword_matches == _check_phishing_keywords(subject \o " " \o body)
        domain_threat == _check_sender_domain(sender)
        url_threats == _check_urls(body)
        typo_threat == _check_typosquatting(sender, subject)
        spoof_threat == _check_spoofing(sender, subject)
        raw == (IF keyword_matches # <<>> THEN 20 ELSE 0)
               + (IF domain_threat # <<>> THEN 30 ELSE 0)
               + 25 * Len(url_threats)
               + (IF typo_threat # <<>> THEN 15 ELSE 0)
               + (IF spoof_threat # <<>> THEN 25 ELSE 0)
        threat_score == raw
        threat_level == _calculate_threat_level(threat_score)
    IN [email_id |-> email.id, threat_level |-> threat_level,
        threat_score |-> threat_score,
        indicators |-> keyword_matches \o domain_threat \o url_threats
                       \o typo_threat \o spoof_threat,
        recommendation |-> threat_level]

\* EmailThreatDetector.analyze, the score in hundredths
analyze(email) ==
    LET sender == Lower(email.from)
        subject == Lower(email.subject)
        body == Lower(email.body)
        keyword_matches == _check_phishing_keywords(subject \o " " \o body)
        domain_threat == _check_sender_domain(sender)
        url_threats == _check_urls(body)
        typo_threat == _check_typosquatting(sender, subject)
        spoof_threat == _check_spoofing(sender, subject)
        raw == (IF keyword_matches # <<>> THEN 20 ELSE 0)
               + (IF domain_threat # <<>> THEN 30 ELSE 0)
               + 25 * Len(url_threats)
               + (IF typo_threat # <<>> THEN 15 ELSE 0)
               + (IF spoof_threat # <<>> THEN 25 ELSE 0)
        threat_score == Min(raw, 100)
        threat_level == _calculate_threat_level(threat_score)
    IN [email_id |-> email.id, threat_level |-> threat_level,
        threat_score |-> threat_score,
        indicators |-> keyword_matches \o domain_threat \o url_threats
                       \o typo_threat \o spoof_threat,
        recommendation |-> threat_level]

(* ------------------------------ classifier ----------------------------- *)
\* EmailClassifier.CATEGORIES, in dictionary order
CATEGORIES ==
    << [name |-> "work", keywords |-> {"meeting", "project", "deadline", "task",
                                        "report", "presentation", "team", "client"}],
       [name |-> "urgent", keywords |-> {"urgent", "asap", "immediately", "critical",
                                          "emergency", "important", "priority"}],
       [name |-> "financial", keywords |-> {"invoice", "payment", "bill", "receipt",
                                             "transaction", "cost", "budget", "expense"}],
       [name |-> "security", keywords |-> {"security", "vulnerability", "breach", "alert",
                                            "warning", "threat", "patch", "update"}],
       [name |-> "social", keywords |-> {"invitation", "event", "party", "celebration",
                                          "gathering", "meetup"}],
       [name |-> "notification", keywords |-> {"notification", "alert", "reminder",
                                                "update", "status", "confirmation"}],
       [name |-> "newsletter", keywords |-> {"newsletter", "digest", "weekly", "monthly",
                                              "subscription", "unsubscribe"}],
       [name |-> "personal", keywords |-> {"personal", "private", "family", "friend",
                                            "vacation", "holiday"}] >>

\* _detect_categories
_detect_categories(text) ==
    LET hit(c) == ContainsAny(text, c.keywords)
        detected == SelectSeq(CATEGORIES, hit)
    IN IF detected # <<>> THEN [i \in DOMAIN detected |-> detected[i].name]
       ELSE <<"general">>

CountIn(text, words) == Cardinality({w \in words : Contains(text, w)})
\* str.count(ch)
CountChar(text, ch) == Cardinality({i \in 1..Len(text) : CharAt(text, i) = ch})
\* str.isupper(): a cased character, and no lower-case one
IsUpper(s) ==
    /\ \E i \in 1..Len(s) : CharAt(s, i) \in Range(UpperCase)
    /\ \A i \in 1..Len(s) : CharAt(s, i) \notin Range(LowerCase)

HighPriorityScore == 5
MediumPriorityScore == 2

\* _calculate_priority
_calculate_priority(text, subject) ==
    LET score == 3 * CountIn(text, {"urgent", "asap", "critical", "emergency",
                                    "immediately", "deadline"})
                 + 2 * CountIn(text, {"important", "soon", "priority", "attention", "review"})
                 - CountIn(text, {"fyi", "info", "update", "newsletter", "digest"})
                 + (IF IsUpper(subject) /\ Len(subject) > 5 THEN 2 ELSE 0)
                 + (IF CountChar(text, "!") >= 2 THEN 1 ELSE 0)
    IN IF score >= HighPriorityScore THEN "high"
       ELSE IF score >= MediumPriorityScore THEN "medium"
       ELSE "low"

\* classify_email, the fields the orchestrator reads
classify_email(email) ==
    LET text == Lower(email.subject \o " " \o email.body) IN
    [id |-> email.id, categories |-> _detect_categories(text),
     priority |-> _calculate_priority(text, email.subject)]

\* list.sort(key=...) of the classifications: high priority first, then
\* by decreasing score; the sort is stable
SortKeyLess(a, b) ==
    LET ka == IF a.priority = "high" THEN -1 ELSE 0
        kb == IF b.priority = "high" THEN -1 ELSE 0
    IN ka < kb \/ (ka = kb /\ (0 - a.score) < (0 - b.score))
RECURSIVE InsertSorted(_, _)
InsertSorted(sorted, x) ==
    IF sorted = <<>> THEN <<x>>
    ELSE IF SortKeyLess(x, sorted[Len(sorted)])
    THEN InsertSorted(SubSeq(sorted, 1, Len(sorted) - 1), x) \o <<sorted[Len(sorted)]>>
    ELSE sorted \o <<x>>
RECURSIVE StableSort(_)
StableSort(seq) ==
    IF seq = <<>> THEN <<>>
    ELSE InsertSorted(StableSort(SubSeq(seq, 1, Len(seq) - 1)), seq[Len(seq)])

(* ---------------------------- the RAG engine --------------------------- *)
\* _build_context: the labelled sections, in ranking order
_build_context(search_results) ==
    [i \in DOMAIN search_results |->
        [label |-> i, subject |-> search_results[i].subject,
         date |-> search_results[i].date, content |-> search_results[i].snippet]]

\* _call_llm: the generated text, the message _call_watsonx/_call_openai
\* return when the call fails, or the fallback when no LLM is configured
_call_llm(s, question, context, llm_ok) ==
    IF s.llm_available
    THEN IF llm_ok THEN [kind |-> "generated", context |-> context]
         ELSE [kind |-> "llm_unavailable_message", context |-> <<>>]
    ELSE [kind |-> "fallback", context |-> context]

\* answer_question citing the best result only
answer_question_first_cited(coll, s, question, top_k, llm_ok) ==
    LET search_results == search(coll, question, top_k) IN
    IF search_results = <<>>
    THEN [answer |-> [kind |-> "no_results", context |-> <<>>], citations |-> <<>>]
    ELSE [answer |-> _call_llm(s, question, _build_context(search_results), llm_ok),
          citations |-> [i \in {1} |->
                           [id |-> search_results[i].id,
                            subject |-> search_results[i].subject,
                            date |-> search_results[i].date,
                            snippet |-> search_results[i].snippet]]]
\* answer_question
answer_question(coll, s, question, top_k, llm_ok) ==
    LET search_results == search(coll, question, top_k) IN
    IF search_results = <<>>
    THEN [answer |-> [kind |-> "no_results", context |-> <<>>], citations |-> <<>>]
    ELSE [answer |-> _call_llm(s, question, _build_context(search_results), llm_ok),
          citations |-> [i \in DOMAIN search_results |->
                           [id |-> search_results[i].id,
                            subject |-> search_results[i].subject,
                            date |-> search_results[i].date,
                            snippet |-> search_results[i].snippet]]]

(* ----------------------- the steps of the workflow --------------------- *)
\* what a collaborator call does: return, or raise
Outcomes == {"ok", "raise"}

\* next(s for s in execution.steps if s.step_id == step_id, None)
FindStep(steps, step_id) ==
    IF \E i \in DOMAIN steps : steps[i].step_id = step_id
    THEN LET i == CHOOSE k \in DOMAIN steps :
                     /\ steps[k].step_id = step_id
                     /\ \A m \in 1..(k - 1) : steps[m].step_id # step_id
         IN steps[i]
    ELSE NoStep

\* _step_semantic_search
_step_semantic_search(coll, query, top_k, outcome) ==
    IF outcome = "ok"
    THEN LET results_list == search(coll, query, top_k) IN
         [WorkflowStep("step_2_search") EXCEPT
            !.metadata = [results |-> results_list,
                          result_count |-> Len(results_list), query |-> query],
            !.result = "Found " \o ToString(Len(results_list)) \o " matching emails",
            !.status = COMPLETED]
    ELSE [WorkflowStep("step_2_search") EXCEPT
            !.status = ERROR, !.error = "search failed"]

\* _step_classification
_step_classification(execution, outcome) ==
    LET search_step == FindStep(execution.steps, "step_2_search") IN
    IF search_step = NoStep \/ search_step.status # COMPLETED
    THEN [WorkflowStep("step_3_classify") EXCEPT
            !.result = "Skipped (no search results)", !.status = COMPLETED]
    ELSE IF outcome = "ok"
    THEN LET results == DictGet(search_step.metadata, "results", <<>>)
             classifications ==
                 [i \in DOMAIN results |->
                    LET classification ==
                            classify_email([id |-> results[i].id,
                                            subject |-> results[i].subject,
                                            body |-> results[i].snippet])
                    IN [email_id |-> results[i].id, subject |-> results[i].subject,
                        category |-> classification.categories[1],
                        priority |-> classification.priority,
                        score |-> results[i].score]]
             sorted == StableSort(classifications)
         IN [WorkflowStep("step_3_classify") EXCEPT
               !.metadata = [classifications |-> sorted,
                             total_classified |-> Len(sorted)],
               !.result = "Classified " \o ToString(Len(sorted)) \o " emails",
               !.status = COMPLETED]
    ELSE [WorkflowStep("step_3_classify") EXCEPT
            !.status = ERROR, !.error = "classification failed"]

\* what the RAG step meets: everything works, the search of answer_question
\* raises, or the text-generation call fails
RagOutcomes == {"ok", "raise", "llm_fail"}

\* _step_rag_generation
_step_rag_generation(coll, s, query, top_k, outcome) ==
    IF outcome = "raise"
    THEN [WorkflowStep("step_4_rag") EXCEPT
            !.status = ERROR, !.error = "rag search failed"]
    ELSE LET response == answer_question(coll, s, query, top_k, outcome = "ok") IN
         [WorkflowStep("step_4_rag") EXCEPT
            !.metadata = [answer |-> response.answer,
                          citations |-> response.citations,
                          model |-> "ibm/granite-13b-chat-v2"],
            !.result = "Answer generated successfully",
            !.status = COMPLETED]

ThreatLevels == <<"SAFE", "CAUTION", "WARNING", "CRITICAL">>
MaxThreatEmails == 5

\* the analyses of _step_threat_detection: the detector's verdict on each of
\* the first five search results
ThreatAnalysesOf(search_step) ==
    LET search_results == DictGet(search_step.metadata, "results", <<>>)
        top == Take(search_results, MaxThreatEmails)
    IN [i \in DOMAIN top |->
          analyze([id |-> top[i].id, subject |-> DictGet(top[i], "subject", ""),
                   body |-> DictGet(top[i], "snippet", ""),
                   from |-> DictGet(top[i], "from", "")])]

\* _step_threat_detection analysing every search result
_step_threat_detection_all(search_step, outcome) ==
    IF outcome = "ok"
    THEN LET search_results == DictGet(search_step.metadata, "results", <<>>)
             top == search_results
             analyses == [i \in DOMAIN top |->
                            analyze([id |-> top[i].id,
                                     subject |-> DictGet(top[i], "subject", ""),
                                     body |-> DictGet(top[i], "snippet", ""),
                                     from |-> DictGet(top[i], "from", "")])]
             serious(a) == a.threat_level \in {"WARNING", "CRITICAL"}
             found == SelectSeq(analyses, serious)
             threats_found == [i \in DOMAIN found |->
                                 [email_id |-> found[i].email_id,
                                  threat_level |-> found[i].threat_level,
                                  threat_score |-> found[i].threat_score,
                                  recommendation |-> found[i].recommendation]]
             threat_counts ==
                 [l \in Range(ThreatLevels) |->
                    Cardinality({i \in DOMAIN analyses : analyses[i].threat_level = l})]
         IN [WorkflowStep("step_5_threat") EXCEPT
               !.metadata = [threats_detected |-> Len(threats_found),
                             threat_summary |-> threat_counts,
                             critical_threats |-> threats_found],
               !.result = "Analyzed " \o ToString(Len(Take(top, MaxThreatEmails))) \o " emails",
               !.status = COMPLETED]
    ELSE [WorkflowStep("step_5_threat") EXCEPT
            !.status = ERROR, !.error = "threat detection failed"]
\* _step_threat_detection
_step_threat_detection(search_step, outcome) ==
    IF outcome = "ok"
    THEN LET search_results == DictGet(search_step.metadata, "results", <<>>)
             top == Take(search_results, MaxThreatEmails)
             analyses == ThreatAnalysesOf(search_step)
             serious(a) == a.threat_level \in {"WARNING", "CRITICAL"}
             found == SelectSeq(analyses, serious)
             threats_found == [i \in DOMAIN found |->
                                 [email_id |-> found[i].email_id,
                                  threat_level |-> found[i].threat_level,
                                  threat_score |-> found[i].threat_score,
                                  recommendation |-> found[i].recommendation]]
             threat_counts ==
                 [l \in Range(ThreatLevels) |->
                    Cardinality({i \in DOMAIN analyses : analyses[i].threat_level = l})]
         IN [WorkflowStep("step_5_threat") EXCEPT
               !.metadata = [threats_detected |-> Len(threats_found),
                             threat_summary |-> threat_counts,
                             critical_threats |-> threats_found],
               !.result = "Analyzed " \o ToString(Len(top)) \o " emails",
               !.status = COMPLETED]
    ELSE [WorkflowStep("step_5_threat") EXCEPT
            !.status = ERROR, !.error = "threat detection failed"]

(* ------------------------------ persistence ---------------------------- *)
\* the SQLite file: the rows of workflow_executions in insertion order and
\* the rows of threat_analysis by primary key
EmptyDb == [workflow_executions |-> <<>>, threat_analysis |-> EmptyDict]

\* what the database meets: the write works, the INSERT fails with a
\* sqlite3.Error, or the connection cannot be opened
DbOutcomes == {"ok", "write_error", "raise"}

\* store_workflow_execution: a plain INSERT; the primary key is read from
\* the key 'id', which the record passed by the orchestrator does not have,
\* so it is NULL, and SQLite lets a TEXT PRIMARY KEY hold several NULLs.
\* A sqlite3.Error is logged and answered with False.
store_workflow_execution(database, execution, outcome) ==
    IF outcome = "ok"
    THEN LET row == [id |-> DictGet(execution, "id", None),
                     workflow_id |-> DictGet(execution, "workflow_id", None),
                     status |-> DictGet(execution, "status", None),
                     steps_executed |-> DictGet(execution, "steps_executed", <<>>),
                     result |-> DictGet(execution, "result", EmptyDict)]
             clash == /\ row.id # None
                      /\ \E i \in DOMAIN database.workflow_executions :
                            database.workflow_executions[i].id = row.id
         IN IF clash THEN database
            ELSE [database EXCEPT !.workflow_executions = Append(@, row)]
    ELSE database

\* store_threat_analysis: INSERT OR REPLACE keyed by the email id
store_threat_analysis(database, analysis, outcome) ==
    IF outcome = "ok"
    THEN LET row == [id |-> analysis.email_id, email_id |-> analysis.email_id,
                     threat_level |-> analysis.threat_level,
                     threat_score |-> analysis.threat_score,
                     indicators |-> DictGet(analysis, "indicators", <<>>),
                     recommendation |-> analysis.recommendation]
         IN [database EXCEPT !.threat_analysis = DictPut(@, analysis.email_id, row)]
    ELSE database

RECURSIVE StoreThreats(_, _, _)
StoreThreats(database, threats, outcome) ==
    IF threats = <<>> THEN database
    ELSE StoreThreats(store_threat_analysis(database, threats[1], outcome),
                      SubSeq(threats, 2, Len(threats)), outcome)

\* PersistedRecord that reports the execution as completed
PersistedRecordFinal(execution) ==
    [workflow_id |-> execution.execution_id,
     status |-> COMPLETED,
     intent |-> execution.intent,
     steps |-> Len(execution.steps),
     result |-> execution.result]
\* the record _step_database_persistence hands to store_workflow_execution
PersistedRecord(execution) ==
    [workflow_id |-> execution.execution_id,
     status |-> execution.status,
     intent |-> execution.intent,
     steps |-> Len(execution.steps),
     result |-> execution.result]

\* _step_database_persistence: the step it returns and the database it
\* leaves; execution.steps does not hold the persistence step yet
_step_database_persistence(database, execution, outcome) ==
    IF outcome = "raise"
    THEN [step |-> [WorkflowStep("step_6_persist") EXCEPT
                      !.status = ERROR, !.error = "unable to open database file"],
          db |-> database]
    ELSE LET db1 == store_workflow_execution(database, PersistedRecord(execution),
                                             outcome)
             threat_step == FindStep(execution.steps, "step_5_threat")
             threats == IF threat_step = NoStep THEN <<>>
                        ELSE DictGet(threat_step.metadata, "critical_threats", <<>>)
             db2 == StoreThreats(db1, threats, outcome)
         IN [step |-> [WorkflowStep("step_6_persist") EXCEPT
                         !.metadata = [execution_stored |-> TRUE,
                                       threats_stored |-> Len(threats)],
                         !.result = "Workflow and threat analysis persisted to database",
                         !.status = COMPLETED],
             db |-> db2]

(* ------------------------- IBM Orchestrate client ---------------------- *)
\* what the HTTP call of IBMOrchestrateClient.execute_workflow meets: an
\* httpx.HTTPError (connection refused, 401, 500), a body that is not JSON,
\* or a JSON body with or without the keys 'execution_id' and 'status'
RemoteResponses(fresh_id) ==
    { [kind |-> "http_error", data |-> EmptyDict],
      [kind |-> "not_json", data |-> EmptyDict],
      [kind |-> "json", data |-> EmptyDict],
      [kind |-> "json", data |-> [execution_id |-> fresh_id, status |-> "COMPLETED",
                                  result |-> [answer |-> "remote"]]] }

\* IBMOrchestrateClient.execute_workflow: the OrchestrateWorkflowOutput it
\* returns, or "raise" for an exception that is not an httpx.HTTPError
ibm_execute_workflow(workflow_id, response) ==
    IF response.kind = "http_error"
    THEN [workflow_id |-> workflow_id, execution_id |-> "exec_error",
          status |-> "FAILED", result |-> [error |-> "http error"]]
    ELSE IF response.kind = "not_json" THEN [status |-> "raise"]
    ELSE [workflow_id |-> workflow_id,
          execution_id |-> DictGet(response.data, "execution_id", "exec_unknown"),
          status |-> DictGet(response.data, "status", "COMPLETED"),
          result |-> DictGet(response.data, "result", EmptyDict)]

IbmDurationMs == 1000

(* -------------------------------- state -------------------------------- *)
VARIABLES
    settings,           \* app.config.settings, fixed for the process
    collection,         \* the records of the vector store collection
    execution_counter,  \* MultiAgentOrchestrator.execution_counter
    executions,         \* MultiAgentOrchestrator.executions: id -> the call
                        \* whose WorkflowExecution object is registered
    execution,          \* per call, its WorkflowExecution object
    call,               \* per call, its arguments, position and locals, and
                        \* what its collaborators did (remote, met)
    db,                 \* the SQLite database
    clock,              \* datetime.utcnow()
    running,            \* the call whose task holds the event loop
    remote_counter,     \* executions the remote service has numbered
    faults,             \* collaborator failures injected so far
    args,               \* the arguments of the component call in progress
    ret                 \* what that call returned

vars == <<settings, collection, execution_counter, executions, execution,
          call, db, clock, running, remote_counter, faults, args, ret>>

\* no WorkflowExecution constructed yet
NoExecution == [execution_id |-> None]
\* no component call made on its own
NoArgs == [op |-> None]
NoReturn == [none |-> None]

IdleCall == [pc |-> "idle", query |-> "", top_k |-> 0, enable_rag |-> FALSE,
             path |-> None, remote |-> None,
             met |-> [search |-> None, classify |-> None, rag |-> None,
                      threat |-> None, persist |-> None],
             classify_step |-> NoStep, rag_step |-> NoStep]

Init ==
    /\ settings \in SettingsChoices
    /\ collection = CollectionOf(settings)
    /\ execution_counter = 0
    /\ executions = EmptyDict
    /\ execution = [e \in Calls |-> NoExecution]
    /\ call = [e \in Calls |-> IdleCall]
    /\ db = EmptyDb
    /\ clock = 0
    /\ running = NoCall
    /\ remote_counter = 0
    /\ faults = 0
    /\ args = NoArgs
    /\ ret = NoReturn

\* get_execution
get_execution(execution_id) ==
    IF execution_id \in DOMAIN executions
    THEN execution[executions[execution_id]] ELSE NoExecution

\* a failing outcome may be drawn while the run has faults left
MayFail(outcome) == outcome = "ok" \/ faults < MaxFaults
Spent(outcome) == IF outcome = "ok" THEN faults ELSE faults + 1

(* ------------------------------- actions ------------------------------- *)
\* execute_workflow up to its first suspension. The key check reads
\* settings.orchestrator_api_key outside any try: on a Settings without the
\* field the AttributeError leaves execute_workflow. Otherwise the IBM
\* Orchestrate path is taken when the key passes the check;
\* _execute_ibm_orchestrate then awaits the HTTP call, unless there is no
\* client (the AttributeError on None is caught, None is returned and the
\* local workflow runs)
ExecuteWorkflow(e, request) ==
    /\ running = NoCall
    /\ call[e].pc = "idle"
    /\ \A f \in Calls : f < e => call[f].pc # "idle"
    /\ LET raises == /\ IBM_ORCHESTRATE_AVAILABLE(settings)
                     /\ ~settings.has_orchestrator_fields
           valid == ~raises /\ is_valid_orchestrator_key(settings)
           delegate == valid /\ get_orchestrate_client(settings) # None
       IN /\ call' = [call EXCEPT ![e] =
                        [@ EXCEPT !.query = request.query, !.top_k = request.top_k,
                                  !.enable_rag = request.enable_rag,
                                  !.remote = IF valid /\ ~delegate
                                             THEN "no_client" ELSE None,
                                  !.pc = IF raises THEN "raised"
                                         ELSE IF delegate THEN "ibm_await"
                                         ELSE "local"]]
          /\ running' = IF raises \/ delegate THEN NoCall ELSE e
    /\ UNCHANGED <<args, ret, settings, collection, execution_counter, executions,
                   execution, db, clock, remote_counter, faults>>

\* the HTTP call returns: _execute_ibm_orchestrate converts the output into
\* a WorkflowExecution, registers it and execute_workflow returns it; an
\* exception makes _execute_ibm_orchestrate return None and the local
\* workflow runs
IbmResponse(e, response) ==
    /\ running = NoCall
    /\ call[e].pc = "ibm_await"
    /\ response.kind = "json" \/ faults < MaxFaults
    /\ faults' = IF response.kind = "json" THEN faults ELSE faults + 1
    /\ LET result == ibm_execute_workflow("email_analysis", response) IN
       IF result.status = "raise"
       THEN /\ call' = [call EXCEPT ![e].pc = "local", ![e].remote = response.kind]
            /\ running' = e
            /\ UNCHANGED <<execution_counter, executions, execution, clock,
                           remote_counter>>
       ELSE LET id == "ibm_" \o result.execution_id IN
            /\ execution_counter' = execution_counter + 1
            /\ execution' = [execution EXCEPT ![e] =
                   [WorkflowExecution(id, call[e].query, clock) EXCEPT
                      !.status = IF result.status = "COMPLETED"
                                 THEN COMPLETED ELSE ERROR,
                      !.result = result.result,
                      !.end_time = clock,
                      !.duration_ms = IbmDurationMs]]
            /\ executions' = DictPut(executions, id, e)
            /\ call' = [call EXCEPT ![e].pc = "returned", ![e].path = "ibm",
                                    ![e].remote = response.kind]
            /\ running' = NoCall
            /\ clock' = clock + 1
            /\ remote_counter' = IF "execution_id" \in DOMAIN response.data
                                 THEN remote_counter + 1 ELSE remote_counter
    /\ UNCHANGED <<args, ret, settings, collection, db>>

\* _execute_local_workflow: the counter is advanced and read with no
\* suspension in between, and the WorkflowExecution is constructed
LocalCreate(e) ==
    /\ running = e
    /\ call[e].pc = "local"
    /\ execution_counter' = execution_counter + 1
    /\ execution' = [execution EXCEPT ![e] =
           WorkflowExecution("exec_" \o ToString(execution_counter + 1),
                             call[e].query, clock)]
    /\ call' = [call EXCEPT ![e].pc = "created", ![e].path = "local"]
    /\ clock' = clock + 1
    /\ UNCHANGED <<args, ret, settings, collection, executions, db, running, remote_counter, faults>>

\* execution.status = RUNNING, then step 1: intent detection, appended
StepIntent(e) ==
    /\ running = e
    /\ call[e].pc = "created"
    /\ execution' = [execution EXCEPT ![e] =
           [@ EXCEPT !.status = RUNNING,
                     !.steps = Append(@, _step_intent_detection(call[e].query))]]
    /\ call' = [call EXCEPT ![e].pc = "intent_done"]
    /\ UNCHANGED <<args, ret, settings, collection, execution_counter, executions, db,
                   clock, running, remote_counter, faults>>

\* step 2: semantic search with the enhanced query, appended
StepSearch(e, outcome) ==
    /\ running = e
    /\ call[e].pc = "intent_done"
    /\ MayFail(outcome)
    /\ LET intent_step == execution[e].steps[1]
           enhanced_query ==
               _enhance_search_query(call[e].query,
                                     DictGet(intent_step.metadata, "intent_type", None))
           search_step == _step_semantic_search(collection, enhanced_query,
                                                call[e].top_k, outcome)
       IN execution' = [execution EXCEPT ![e].steps = Append(@, search_step)]
    /\ call' = [call EXCEPT ![e].pc = "search_done", ![e].met.search = outcome]
    /\ faults' = Spent(outcome)
    /\ UNCHANGED <<args, ret, settings, collection, execution_counter, executions, db,
                   clock, running, remote_counter>>

\* SearchFailed that closes the execution without setting its status
SearchFailedLeftRunning(e) ==
    /\ running = e
    /\ call[e].pc = "search_done"
    /\ execution[e].steps[2].status = ERROR
    /\ execution' = [execution EXCEPT ![e] =
           [@ EXCEPT !.error = execution[e].steps[2].error,
                     !.end_time = clock,
                     !.duration_ms = clock - execution[e].start_time]]
    /\ call' = [call EXCEPT ![e].pc = "returned"]
    /\ running' = NoCall
    /\ clock' = clock + 1
    /\ UNCHANGED <<args, ret, settings, collection, execution_counter, executions, db,
                   remote_counter, faults>>

\* the search step ended in ERROR: the execution is closed and returned from
\* inside the try block, before the line that registers it
SearchFailed(e) ==
    /\ running = e
    /\ call[e].pc = "search_done"
    /\ execution[e].steps[2].status = ERROR
    /\ execution' = [execution EXCEPT ![e] =
           [@ EXCEPT !.status = ERROR,
                     !.error = execution[e].steps[2].error,
                     !.end_time = clock,
                     !.duration_ms = clock - execution[e].start_time]]
    /\ call' = [call EXCEPT ![e].pc = "returned"]
    /\ running' = NoCall
    /\ clock' = clock + 1
    /\ UNCHANGED <<args, ret, settings, collection, execution_counter, executions, db,
                   remote_counter, faults>>

\* GatherStart without the check of the search step's status
GatherStartUnchecked(e) ==
    /\ running = e
    /\ call[e].pc = "search_done"
    /\ call[e].enable_rag
    /\ call' = [call EXCEPT ![e].pc = "gather"]
    /\ running' = NoCall
    /\ UNCHANGED <<args, ret, settings, collection, execution_counter, executions,
                   execution, db, clock, remote_counter, faults>>

\* RAG enabled: asyncio.gather schedules the two coroutines as tasks and the
\* workflow task is suspended until both are done
GatherStart(e) ==
    /\ running = e
    /\ call[e].pc = "search_done"
    /\ execution[e].steps[2].status # ERROR
    /\ call[e].enable_rag
    /\ call' = [call EXCEPT ![e].pc = "gather"]
    /\ running' = NoCall
    /\ UNCHANGED <<args, ret, settings, collection, execution_counter, executions,
                   execution, db, clock, remote_counter, faults>>

\* RAG disabled: the classification coroutine is awaited directly
ClassifyOnly(e, outcome) ==
    /\ running = e
    /\ call[e].pc = "search_done"
    /\ execution[e].steps[2].status # ERROR
    /\ ~call[e].enable_rag
    /\ MayFail(outcome)
    /\ call' = [call EXCEPT ![e].pc = "joined", ![e].met.classify = outcome,
                            ![e].classify_step = _step_classification(execution[e], outcome)]
    /\ faults' = Spent(outcome)
    /\ UNCHANGED <<args, ret, settings, collection, execution_counter, executions,
                   execution, db, clock, running, remote_counter>>

\* the classification task of the gather runs to its end
BranchClassify(e, outcome) ==
    /\ running = NoCall
    /\ call[e].pc = "gather"
    /\ call[e].classify_step = NoStep
    /\ MayFail(outcome)
    /\ call' = [call EXCEPT ![e].met.classify = outcome,
                            ![e].classify_step = _step_classification(execution[e], outcome)]
    /\ faults' = Spent(outcome)
    /\ UNCHANGED <<args, ret, settings, collection, execution_counter, executions,
                   execution, db, clock, running, remote_counter>>

\* the RAG task of the gather runs to its end; it searches again, with the
\* query as the user gave it
BranchRag(e, outcome) ==
    /\ running = NoCall
    /\ call[e].pc = "gather"
    /\ call[e].rag_step = NoStep
    /\ MayFail(outcome)
    /\ outcome = "llm_fail" =>
          /\ settings.llm_available
          /\ search(collection, call[e].query, call[e].top_k) # <<>>
    /\ call' = [call EXCEPT ![e].met.rag = outcome,
                            ![e].rag_step =
                                _step_rag_generation(collection, settings, call[e].query,
                                                     call[e].top_k, outcome)]
    /\ faults' = Spent(outcome)
    /\ UNCHANGED <<args, ret, settings, collection, execution_counter, executions,
                   execution, db, clock, running, remote_counter>>

\* Join that resumes the workflow as soon as one of the two tasks is done
JoinFirstDone(e) ==
    /\ running = NoCall
    /\ call[e].pc = "gather"
    /\ call[e].classify_step # NoStep \/ call[e].rag_step # NoStep
    /\ call' = [call EXCEPT ![e].pc = "joined"]
    /\ running' = e
    /\ UNCHANGED <<args, ret, settings, collection, execution_counter, executions,
                   execution, db, clock, remote_counter, faults>>

\* the gather is done when both tasks are: the workflow task resumes
Join(e) ==
    /\ running = NoCall
    /\ call[e].pc = "gather"
    /\ call[e].classify_step # NoStep
    /\ call[e].rag_step # NoStep
    /\ call' = [call EXCEPT ![e].pc = "joined"]
    /\ running' = e
    /\ UNCHANGED <<args, ret, settings, collection, execution_counter, executions,
                   execution, db, clock, remote_counter, faults>>

\* BuildWorkflowResult that does not look at the status of the RAG step
BuildWorkflowResultAlways(enable_rag, rag_step, search_step) ==
    IF enable_rag /\ rag_step # NoStep
    THEN [answer |-> DictGet(rag_step.metadata, "answer", None),
          citations |-> DictGet(rag_step.metadata, "citations", <<>>),
          search_results |-> DictGet(search_step.metadata, "results", <<>>)]
    ELSE [search_results |-> DictGet(search_step.metadata, "results", <<>>)]

\* the result assembled from the RAG step and the search step
BuildWorkflowResult(enable_rag, rag_step, search_step) ==
    IF enable_rag /\ rag_step # NoStep /\ rag_step.status = COMPLETED
    THEN [answer |-> DictGet(rag_step.metadata, "answer", None),
          citations |-> DictGet(rag_step.metadata, "citations", <<>>),
          search_results |-> DictGet(search_step.metadata, "results", <<>>)]
    ELSE [search_results |-> DictGet(search_step.metadata, "results", <<>>)]

\* the steps of the branches are appended, classification first, and
\* execution.result is built
AppendBranches(e) ==
    /\ running = e
    /\ call[e].pc = "joined"
    /\ LET rag_step == call[e].rag_step
           with_classify == Append(execution[e].steps, call[e].classify_step)
       IN execution' = [execution EXCEPT ![e] =
             [@ EXCEPT !.steps = IF rag_step # NoStep
                                 THEN Append(with_classify, rag_step)
                                 ELSE with_classify,
                       !.result = BuildWorkflowResult(call[e].enable_rag, rag_step,
                                                      execution[e].steps[2])]]
    /\ call' = [call EXCEPT ![e].pc = "result_built"]
    /\ UNCHANGED <<args, ret, settings, collection, execution_counter, executions, db,
                   clock, running, remote_counter, faults>>

\* StepThreat that writes its step over the last step of the list
StepThreatOverwrites(e, outcome) ==
    /\ running = e
    /\ call[e].pc = "result_built"
    /\ MayFail(outcome)
    /\ execution' = [execution EXCEPT ![e].steps =
           [@ EXCEPT ![Len(@)] = _step_threat_detection(execution[e].steps[2], outcome)]]
    /\ call' = [call EXCEPT ![e].pc = "threat_done", ![e].met.threat = outcome]
    /\ faults' = Spent(outcome)
    /\ UNCHANGED <<args, ret, settings, collection, execution_counter, executions, db,
                   clock, running, remote_counter>>
\* step 5: threat detection over the search results, appended
StepThreat(e, outcome) ==
    /\ running = e
    /\ call[e].pc = "result_built"
    /\ MayFail(outcome)
    /\ execution' = [execution EXCEPT ![e].steps =
           Append(@, _step_threat_detection(execution[e].steps[2], outcome))]
    /\ call' = [call EXCEPT ![e].pc = "threat_done", ![e].met.threat = outcome]
    /\ faults' = Spent(outcome)
    /\ UNCHANGED <<args, ret, settings, collection, execution_counter, executions, db,
                   clock, running, remote_counter>>

\* step 6: persistence, appended
StepPersist(e, outcome) ==
    /\ running = e
    /\ call[e].pc = "threat_done"
    /\ MayFail(outcome)
    /\ LET done == _step_database_persistence(db, execution[e], outcome) IN
       /\ execution' = [execution EXCEPT ![e].steps = Append(@, done.step)]
       /\ db' = done.db
    /\ call' = [call EXCEPT ![e].pc = "persist_done", ![e].met.persist = outcome]
    /\ faults' = Spent(outcome)
    /\ UNCHANGED <<args, ret, settings, collection, execution_counter, executions,
                   clock, running, remote_counter>>

\* Complete that reports ERROR when one of the recorded steps failed
CompleteStrict(e) ==
    /\ running = e
    /\ call[e].pc = "persist_done"
    /\ execution' = [execution EXCEPT ![e] =
           [@ EXCEPT !.status = IF \E i \in DOMAIN execution[e].steps :
                                       execution[e].steps[i].status = ERROR
                                THEN ERROR ELSE COMPLETED,
                     !.end_time = clock,
                     !.duration_ms = clock - execution[e].start_time]]
    /\ executions' = DictPut(executions, execution[e].execution_id, e)
    /\ call' = [call EXCEPT ![e].pc = "returned"]
    /\ running' = NoCall
    /\ clock' = clock + 1
    /\ UNCHANGED <<args, ret, settings, collection, execution_counter, db, remote_counter, faults>>

\* the execution is COMPLETED, registered and returned
Complete(e) ==
    /\ running = e
    /\ call[e].pc = "persist_done"
    /\ execution' = [execution EXCEPT ![e] =
           [@ EXCEPT !.status = COMPLETED,
                     !.end_time = clock,
                     !.duration_ms = clock - execution[e].start_time]]
    /\ executions' = DictPut(executions, execution[e].execution_id, e)
    /\ call' = [call EXCEPT ![e].pc = "returned"]
    /\ running' = NoCall
    /\ clock' = clock + 1
    /\ UNCHANGED <<args, ret, settings, collection, execution_counter, db, remote_counter, faults>>

Next ==
    \/ \E e \in Calls, request \in Requests : ExecuteWorkflow(e, request)
    \/ \E e \in Calls :
          \E response \in RemoteResponses("r" \o ToString(remote_counter + 1)) :
             IbmResponse(e, response)
    \/ \E e \in Calls : LocalCreate(e)
    \/ \E e \in Calls : StepIntent(e)
    \/ \E e \in Calls, outcome \in Outcomes : StepSearch(e, outcome)
    \/ \E e \in Calls : SearchFailed(e)
    \/ \E e \in Calls : GatherStart(e)
    \/ \E e \in Calls, outcome \in Outcomes : ClassifyOnly(e, outcome)
    \/ \E e \in Calls, outcome \in Outcomes : BranchClassify(e, outcome)
    \/ \E e \in Calls, outcome \in RagOutcomes : BranchRag(e, outcome)
    \/ \E e \in Calls : Join(e)
    \/ \E e \in Calls : AppendBranches(e)
    \/ \E e \in Calls, outcome \in Outcomes : StepThreat(e, outcome)
    \/ \E e \in Calls, outcome \in DbOutcomes : StepPersist(e, outcome)
    \/ \E e \in Calls : Complete(e)

Spec == Init /\ [][Next]_vars

(* ------------------------------ properties ----------------------------- *)
Returned(e) == call[e].pc = "returned"
Local(e) == call[e].path = "local"
Constructed(e) == execution[e] # NoExecution
StepIds(e) == [i \in DOMAIN execution[e].steps |-> execution[e].steps[i].step_id]
SearchStepOf(e) == execution[e].steps[2]
SearchEnded(e, status) ==
    /\ Constructed(e) /\ Local(e)
    /\ Len(execution[e].steps) >= 2
    /\ SearchStepOf(e).status = status

\* C1: in the local workflow, once the semantic-search step has ended in
\* ERROR the step list stays [intent step, search step] (no classification,
\* RAG, threat or persistence step is ever recorded), and the execution
\* that is returned has status ERROR and carries the search step's error.
C1_SearchErrorIsFatal ==
    \A e \in Calls :
        SearchEnded(e, ERROR) =>
            /\ StepIds(e) = <<"step_1_intent", "step_2_search">>
            /\ Returned(e) =>
                  /\ execution[e].status = ERROR
                  /\ execution[e].error = SearchStepOf(e).error
                  /\ execution[e].error # None

\* a local execution returned after its search step failed
C1_Witness ==
    \E e \in Calls : Returned(e) /\ SearchEnded(e, ERROR)

\* C2: every record returned by execute_workflow is registered under its
\* execution_id, so that get_execution gives the record back, and
\* get_execution of an id that was never assigned gives None.
C2_ReturnedIsRegistered ==
    /\ \A e \in Calls :
          Returned(e) =>
             /\ execution[e].execution_id \in DOMAIN executions
             /\ get_execution(execution[e].execution_id) = execution[e]
    /\ get_execution("nonexistent") = NoExecution

\* C3: when the attempt to delegate to the external service failed (the
\* HTTP call failed, no client was available, an exception was raised),
\* the record execute_workflow returns is the one of the local workflow.
C3_RemoteFailureFallsBack ==
    \A e \in Calls :
        (Returned(e) /\ call[e].remote \in {"http_error", "no_client", "not_json"})
            => Local(e)

\* the step ids of a local workflow that got past the search step
FullStepIds(enable_rag) ==
    IF enable_rag
    THEN <<"step_1_intent", "step_2_search", "step_3_classify", "step_4_rag",
           "step_5_threat", "step_6_persist">>
    ELSE <<"step_1_intent", "step_2_search", "step_3_classify",
           "step_5_threat", "step_6_persist">>

\* the collaborator of the step at position i raised
StepRaised(e, i) ==
    LET id == execution[e].steps[i].step_id IN
    \/ id = "step_2_search" /\ call[e].met.search = "raise"
    \/ id = "step_3_classify" /\ call[e].met.classify = "raise"
    \/ id = "step_4_rag" /\ call[e].met.rag = "raise"
    \/ id = "step_5_threat" /\ call[e].met.threat = "raise"
    \/ id = "step_6_persist" /\ call[e].met.persist = "raise"

\* C4: in the local workflow, once the search step is COMPLETED no failure
\* of a later step stops the execution: the execution never becomes ERROR,
\* the record returned is COMPLETED and holds all the steps of the
\* workflow, and a step is in ERROR only where its own collaborator raised.
C4_NonFatalStepsContinue ==
    \A e \in Calls :
        SearchEnded(e, COMPLETED) =>
            /\ execution[e].status \in {RUNNING, COMPLETED}
            /\ \A i \in DOMAIN execution[e].steps :
                  execution[e].steps[i].status = ERROR => StepRaised(e, i)
            /\ Returned(e) =>
                  /\ execution[e].status = COMPLETED
                  /\ StepIds(e) = FullStepIds(call[e].enable_rag)

\* a COMPLETED execution returned with a failed step that is not the last
\* one, and one returned with a failed persistence step
C4_Witness ==
    \E e \in Calls :
        /\ Returned(e) /\ SearchEnded(e, COMPLETED)
        /\ \E i \in DOMAIN execution[e].steps :
              /\ execution[e].steps[i].status = ERROR
              /\ i < Len(execution[e].steps)

\* C5: when the text-generation call failed during the RAG step, or a
\* storage write failed during the persistence step, the step recorded in
\* the returned execution has status ERROR.
C5_CollaboratorFailureIsStepError ==
    \A e \in Calls :
        (Returned(e) /\ Local(e)) =>
            /\ call[e].met.rag = "llm_fail" =>
                  FindStep(execution[e].steps, "step_4_rag").status = ERROR
            /\ call[e].met.persist = "write_error" =>
                  FindStep(execution[e].steps, "step_6_persist").status = ERROR

\* the status of the execution of a call, "none" before it is constructed
StatusOf(e) == IF Constructed(e) THEN execution[e].status ELSE "none"
StatusRank(status) ==
    CASE status = "none" -> 0
      [] status = PENDING -> 1
      [] status = RUNNING -> 2
      [] status \in {COMPLETED, ERROR} -> 3

\* C6: the status of an execution only moves forward along
\* PENDING -> RUNNING -> {COMPLETED | ERROR}, a terminal status is never
\* changed, and every returned record is terminal with end_time and
\* duration_ms set.
C6_StatusStateMachine ==
    /\ [][\A e \in Calls :
             /\ StatusRank(StatusOf(e)') >= StatusRank(StatusOf(e))
             /\ StatusOf(e) \in {COMPLETED, ERROR} => StatusOf(e)' = StatusOf(e)
             /\ StatusOf(e)' = RUNNING => StatusOf(e) \in {PENDING, RUNNING}]_vars
    /\ [](\A e \in Calls :
             Returned(e) =>
                /\ execution[e].status \in {COMPLETED, ERROR}
                /\ execution[e].end_time # NoTime
                /\ execution[e].duration_ms # NoTime)

\* a local execution returned in ERROR and another returned COMPLETED
C6_Witness ==
    \E e, f \in Calls :
        /\ Returned(e) /\ Local(e) /\ execution[e].status = ERROR
        /\ Returned(f) /\ Local(f) /\ execution[f].status = COMPLETED

\* the workflow of the call is past the join of its two branches
PastJoin(e) ==
    /\ call[e].enable_rag
    /\ \/ call[e].pc \in {"joined", "result_built", "threat_done", "persist_done"}
       \/ Returned(e) /\ SearchEnded(e, COMPLETED)

\* C7: with RAG enabled the workflow goes on only when both branches have
\* finished; when it resumes, each branch's step is the one that branch
\* produces on its own (its status and metadata depend on its own
\* collaborator only, whatever the other branch met), and both are
\* appended, classification before RAG.
C7_FanInWaitsForBoth ==
    \A e \in Calls :
        PastJoin(e) =>
            /\ call[e].classify_step # NoStep
            /\ call[e].rag_step # NoStep
            /\ call[e].classify_step.status
                  = IF call[e].met.classify = "raise" THEN ERROR ELSE COMPLETED
            /\ call[e].rag_step.status
                  = IF call[e].met.rag = "raise" THEN ERROR ELSE COMPLETED
            /\ call[e].pc = "joined" =>
                  /\ call[e].classify_step
                        = _step_classification(execution[e], call[e].met.classify)
                  /\ call[e].rag_step
                        = _step_rag_generation(collection, settings, call[e].query,
                                               call[e].top_k, call[e].met.rag)
            /\ call[e].pc # "joined" =>
                  /\ execution[e].steps[3] = call[e].classify_step
                  /\ execution[e].steps[4] = call[e].rag_step

\* a joined workflow whose classification branch failed while its RAG
\* branch completed
C7_Witness ==
    \E e \in Calls :
        /\ PastJoin(e) /\ call[e].pc # "joined"
        /\ execution[e].steps[3].status = ERROR
        /\ execution[e].steps[4].status = COMPLETED

\* C8: no two executions ever receive the same execution_id.
C8_UniqueExecutionIds ==
    \A e, f \in Calls :
        (e # f /\ Constructed(e) /\ Constructed(f))
            => execution[e].execution_id # execution[f].execution_id

\* C9: on a COMPLETED local execution, result.search_results is the result
\* list of the search step, and result holds 'answer' and 'citations'
\* exactly when RAG was enabled and the RAG step is COMPLETED; otherwise it
\* holds search_results only.
C9_ResultAssembly ==
    \A e \in Calls :
        (Returned(e) /\ Local(e) /\ execution[e].status = COMPLETED) =>
            LET result == execution[e].result
                rag_step == FindStep(execution[e].steps, "step_4_rag")
                with_rag == /\ call[e].enable_rag
                            /\ rag_step # NoStep
                            /\ rag_step.status = COMPLETED
            IN /\ result # NoResult
               /\ result.search_results = SearchStepOf(e).metadata.results
               /\ ("answer" \in DOMAIN result) <=> with_rag
               /\ ("citations" \in DOMAIN result) <=> with_rag
               /\ with_rag => /\ result.answer = rag_step.metadata.answer
                              /\ result.citations = rag_step.metadata.citations
               /\ ~with_rag => DOMAIN result = {"search_results"}
               /\ ~call[e].enable_rag => rag_step = NoStep

\* a COMPLETED execution whose RAG step failed, returned with the search
\* results only
C9_Witness ==
    \E e \in Calls :
        /\ Returned(e) /\ Local(e) /\ execution[e].status = COMPLETED
        /\ call[e].enable_rag
        /\ FindStep(execution[e].steps, "step_4_rag").status = ERROR
        /\ execution[e].result.search_results # <<>>

(* ------------------- re-running the persistence step ------------------- *)
\* The SQLite file outlives the process, while execution_counter starts at
\* 0 in every process: the persistence step meets again an execution_id
\* that an earlier run has already stored.  PersistSpec applies the step to
\* the database over and over, for executions as they are when the workflow
\* reaches step 6.
PersistIds == {"exec_1", "exec_2"}

\* the WorkflowExecution of a request at the moment _step_database_persistence
\* is called: RUNNING, with the steps 1 to 5 and the result
ExecutionBeforePersist(execution_id, request) ==
    LET intent_step == _step_intent_detection(request.query)
        search_step ==
            _step_semantic_search(collection,
                _enhance_search_query(request.query, intent_step.metadata.intent_type),
                request.top_k, "ok")
        searched == [WorkflowExecution(execution_id, request.query, 0) EXCEPT
                        !.status = RUNNING, !.steps = <<intent_step, search_step>>]
        classify_step == _step_classification(searched, "ok")
        rag_step == IF request.enable_rag
                    THEN _step_rag_generation(collection, settings, request.query,
                                              request.top_k, "ok")
                    ELSE NoStep
        threat_step == _step_threat_detection(search_step, "ok")
    IN [searched EXCEPT
          !.steps = IF rag_step # NoStep
                    THEN <<intent_step, search_step, classify_step, rag_step, threat_step>>
                    ELSE <<intent_step, search_step, classify_step, threat_step>>,
          !.result = BuildWorkflowResult(request.enable_rag, rag_step, search_step)]

PersistInit ==
    /\ Init
    /\ collection # <<>>

RunPersistence(execution_id, request, outcome) ==
    /\ Len(db.workflow_executions) < MaxReruns
    /\ db' = _step_database_persistence(
                 db, ExecutionBeforePersist(execution_id, request), outcome).db
    /\ UNCHANGED <<args, ret, settings, collection, execution_counter, executions,
                   execution, call, clock, running, remote_counter, faults>>

PersistNext ==
    \E execution_id \in PersistIds, request \in Requests, outcome \in DbOutcomes :
        RunPersistence(execution_id, request, outcome)

PersistSpec == PersistInit /\ [][PersistNext]_vars

\* the rows of workflow_executions stored for an execution_id
RowsOf(execution_id) ==
    {i \in DOMAIN db.workflow_executions :
        db.workflow_executions[i].workflow_id = execution_id}

\* C10: persistence is idempotent per execution_id: however often the
\* persistence step runs for an execution_id, the store holds at most one
\* workflow-execution row for it, and one threat-analysis row per email id.
C10_PersistenceIdempotent ==
    /\ \A execution_id \in PersistIds : Cardinality(RowsOf(execution_id)) <= 1
    /\ \A email_id \in DOMAIN db.threat_analysis :
          db.threat_analysis[email_id].email_id = email_id

(* ------------------------ list_recent_executions ----------------------- *)
MaxLimit == 3
Limits == 0 .. MaxLimit

\* list(self.executions.values()): the registered records (between records
\* of equal start_time Python keeps the registry's order)
RECURSIVE ExecutionValuesFrom(_)
ExecutionValuesFrom(e) ==
    IF e \notin Calls THEN <<>>
    ELSE (IF \E id \in DOMAIN executions : executions[id] = e
          THEN <<execution[e]>> ELSE <<>>) \o ExecutionValuesFrom(e + 1)

\* sorted(..., key=start_time, reverse=True): stable, latest first
RECURSIVE InsertByStartTime(_, _)
InsertByStartTime(sorted, x) ==
    IF sorted = <<>> THEN <<x>>
    ELSE IF sorted[Len(sorted)].start_time >= x.start_time
    THEN sorted \o <<x>>
    ELSE InsertByStartTime(SubSeq(sorted, 1, Len(sorted) - 1), x)
            \o <<sorted[Len(sorted)]>>
RECURSIVE SortedByStartTime(_)
SortedByStartTime(seq) ==
    IF seq = <<>> THEN <<>>
    ELSE InsertByStartTime(SortedByStartTime(SubSeq(seq, 1, Len(seq) - 1)),
                           seq[Len(seq)])

\* the sort left out: the records in registry order
list_recent_unsorted(limit) == Take(ExecutionValuesFrom(1), limit)
\* list_recent_executions
list_recent_executions(limit) ==
    Take(SortedByStartTime(ExecutionValuesFrom(1)), limit)

\* C11: list_recent_executions(limit) returns min(limit, size of the
\* registry) records, each of them a registered record, none twice, latest
\* start_time first, and no record left out is more recent than a returned
\* one.
C11_ListRecentExecutions ==
    \A limit \in Limits :
        LET recent == list_recent_executions(limit)
            registered == {get_execution(id) : id \in DOMAIN executions}
        IN /\ Len(recent) = Min(limit, Cardinality(DOMAIN executions))
           /\ Range(recent) \subseteq registered
           /\ \A i, j \in DOMAIN recent : i # j => recent[i] # recent[j]
           /\ \A i, j \in DOMAIN recent :
                 i < j => recent[i].start_time >= recent[j].start_time
           /\ \A x \in registered \ Range(recent) :
                 \A i \in DOMAIN recent : recent[i].start_time >= x.start_time

\* two executions are registered and the later one was registered by the
\* call that started first: the listing of one record returns it
C11_Witness ==
    /\ Cardinality(DOMAIN executions) >= 2
    /\ \E e, f \in Calls :
          /\ e < f
          /\ list_recent_executions(1) = <<execution[e]>>
          /\ execution[f] \in {get_execution(id) : id \in DOMAIN executions}
          /\ execution[e].start_time > execution[f].start_time

(* --------------------- the threat detector on its own ------------------ *)
\* one process configuration for the checks of a single component
ComponentInit ==
    /\ Init
    /\ ~settings.ibm_orchestrate_importable

\* the 'from' values handed to analyze, each with the domain of the address
\* it carries: bare addresses, a From header with a display name as the
\* Gmail ingestion passes it on, and no sender
ThreatSenders ==
    { [from |-> "fake@paypa1.com", domain |-> "paypa1.com"],
      [from |-> "security@microsoft.com", domain |-> "microsoft.com"],
      [from |-> "Google <alerts@gmail.com>", domain |-> "gmail.com"],
      [from |-> "promo@deals.xyz", domain |-> "deals.xyz"],
      [from |-> "help@paypal.evil.net", domain |-> "paypal.evil.net"],
      [from |-> "", domain |-> ""] }
ThreatSubjects ==
    { "URGENT: Verify your account immediately", "Team sync",
      "Your Amazon order", "Re: invoice" }
ThreatBodies ==
    { "Click https://bit.ly/verify-now", "agenda attached",
      "http://bit.ly/a http://1.2.3.4 http://x.co/c",
      "IBM and Google wire transfer", "see (http://ok.example/p) thanks",
      "http://bit.ly/1.2.3.4", "http://bit.ly/a again http://bit.ly/a" }
ThreatEmails ==
    { [email |-> [id |-> "t1", from |-> sender.from, subject |-> subject,
                  body |-> body],
       sender_domain |-> sender.domain] :
         sender \in ThreatSenders, subject \in ThreatSubjects, body \in ThreatBodies }

\* analyze_email_threat(email)
Analyze(m) ==
    /\ args' = [op |-> "analyze", email |-> m.email, sender_domain |-> m.sender_domain]
    /\ ret' = analyze(m.email)
    /\ UNCHANGED <<settings, collection, execution_counter, executions,
                   execution, call, db, clock, running, remote_counter, faults>>

ThreatNext == \E m \in ThreatEmails : Analyze(m)

ThreatSpec == ComponentInit /\ [][ThreatNext]_vars

Analyzed == args.op = "analyze"
IndicatorTypes == {ret.indicators[i].type : i \in DOMAIN ret.indicators}
\* an indicator of the domain-reputation check
IsDomainIndicator(ind) ==
    \/ ind.type = "suspicious_domain"
    \/ ind.type = "phishing" /\ ind.severity = "CRITICAL"
\* what the check behind an indicator adds to the score, in hundredths
ContributionOf(ind) ==
    CASE IsDomainIndicator(ind) -> 30
      [] ind.type = "phishing" -> 20
      [] ind.type = "suspicious_url" -> 25
      [] ind.type = "typosquatting" -> 15
      [] ind.type = "spoofing" -> 25
RECURSIVE SumContributions(_)
SumContributions(indicators) ==
    IF indicators = <<>> THEN 0
    ELSE ContributionOf(indicators[1]) + SumContributions(Tail(indicators))

\* C12: the threat score is the sum of the contributions of the checks
\* that fired, clamped to [0, 1], and the level is the step function of
\* the score: SAFE below 0.25, CAUTION from 0.25, WARNING from 0.5,
\* CRITICAL from 0.75.
C12_ScoreClampedLevelMonotone ==
    Analyzed =>
        /\ ret.threat_score = Min(SumContributions(ret.indicators), 100)
        /\ ret.threat_score >= 0 /\ ret.threat_score <= 100
        /\ ret.threat_level = "SAFE" <=> ret.threat_score < 25
        /\ ret.threat_level = "CAUTION" <=>
              (ret.threat_score >= 25 /\ ret.threat_score < 50)
        /\ ret.threat_level = "WARNING" <=>
              (ret.threat_score >= 50 /\ ret.threat_score < 75)
        /\ ret.threat_level = "CRITICAL" <=> ret.threat_score >= 75

\* the contributions of an analysed message add up to more than 1
C12_Witness ==
    /\ Analyzed
    /\ SumContributions(ret.indicators) > 100
    /\ ret.threat_score = 100

\* C13: the message from fake@paypa1.com with the subject "URGENT: Verify
\* your account immediately" and the body "Click https://bit.ly/verify-now"
\* has typosquatting, phishing and suspicious_url indicators, a score of at
\* least 0.75 and the level CRITICAL.
C13_TyposquatPhishingShortenerIsCritical ==
    ( /\ Analyzed
      /\ args.email.from = "fake@paypa1.com"
      /\ args.email.subject = "URGENT: Verify your account immediately"
      /\ args.email.body = "Click https://bit.ly/verify-now" )
        => /\ {"typosquatting", "phishing", "suspicious_url"} \subseteq IndicatorTypes
           /\ ret.threat_score >= 75
           /\ ret.threat_level = "CRITICAL"

\* C14: for a sender whose domain is on the allow-list neither the
\* domain-reputation check nor the spoofing check adds an indicator, and
\* when no keyword, URL or typosquatting indicator fires either the
\* analysis is SAFE with no indicator.
C14_TrustedSenderNotFlagged ==
    (Analyzed /\ args.sender_domain \in TRUSTED_DOMAINS) =>
        /\ \A i \in DOMAIN ret.indicators :
              /\ ~IsDomainIndicator(ret.indicators[i])
              /\ ret.indicators[i].type # "spoofing"
        /\ (\A i \in DOMAIN ret.indicators :
               \/ IsDomainIndicator(ret.indicators[i])
               \/ ret.indicators[i].type = "spoofing")
              => /\ ret.threat_level = "SAFE"
                 /\ ret.indicators = <<>>

(* -------------------------- the chunker on its own --------------------- *)
\* s repeated n times
RECURSIVE Repeat(_, _)
Repeat(s, n) ==
    IF n = 0 THEN ""
    ELSE IF n % 2 = 0 THEN LET half == Repeat(s, n \div 2) IN half \o half
    ELSE s \o Repeat(s, n - 1)
\* a text of n characters 'a' with the string mark at 0-based position at
Marked(n, at, mark) ==
    Repeat("a", at) \o mark \o Repeat("a", n - at - Len(mark))

\* the calls of _chunk_text that are followed: short texts with small
\* sizes, and texts of 1200 characters with the sizes of the settings
ChunkCalls ==
    ( { "aaaaaaaaaaaa", "aaa.aaaaaa", "aaaa.aaaaa.aaa", "aa aa.aa aaa",
        "a. aaaa aaaa", "aaaaa.  aaaa", "abc", " a", "aaaa      aaaa" }
      \X { <<4, 1>>, <<4, 3>>, <<5, 2>>, <<5, 4>>, <<6, 3>>, <<6, 5>> } )
    \cup
    ( { Repeat("a", 1200), Marked(1200, 300, "."), Marked(1200, 700, ". ") }
      \X { <<500, 50>>, <<500, 0>>, <<0, 0>> } )

\* _chunk_text is called: a text that fits is returned as the only chunk,
\* a longer one enters the loop
ChunkCall(c) ==
    /\ args = NoArgs
    /\ args' = [op |-> "_chunk_text", text |-> c[1],
                chunk_size |-> c[2][1], overlap |-> c[2][2]]
    /\ ret' = IF Len(c[1]) <= OrDefault(c[2][1], DefaultChunkSize)
              THEN [pc |-> "returned", start |-> 0, chunks |-> <<c[1]>>,
                    windows |-> << <<0, Len(c[1])>> >>]
              ELSE ChunkLoopEntry
    /\ UNCHANGED <<settings, collection, execution_counter, executions,
                   execution, call, db, clock, running, remote_counter, faults>>

\* one iteration of the loop
ChunkStep ==
    /\ args.op = "_chunk_text"
    /\ ret.pc = "loop"
    /\ ret.start < Len(args.text)
    /\ Len(ret.chunks) < MaxChunks
    /\ ret' = ChunkIteration(args.text, args.chunk_size, args.overlap, ret)
    /\ UNCHANGED <<args, settings, collection, execution_counter, executions,
                   execution, call, db, clock, running, remote_counter, faults>>

\* the loop is left and the chunks are returned
ChunkReturn ==
    /\ args.op = "_chunk_text"
    /\ ret.pc = "loop"
    /\ ret.start >= Len(args.text)
    /\ ret' = [ret EXCEPT !.pc = "returned"]
    /\ UNCHANGED <<args, settings, collection, execution_counter, executions,
                   execution, call, db, clock, running, remote_counter, faults>>

ChunkNext ==
    \/ \E c \in ChunkCalls : ChunkCall(c)
    \/ ChunkStep
    \/ ChunkReturn

ChunkSpec == ComponentInit /\ [][ChunkNext]_vars

\* the parts of the text that the chunks contribute once the overlap with
\* the chunk before is removed, put together
RECURSIVE WithoutOverlaps(_, _, _, _)
WithoutOverlaps(text, windows, overlap, i) ==
    IF i > Len(windows) THEN ""
    ELSE Slice(text, windows[i][1] + (IF i = 1 THEN 0 ELSE overlap), windows[i][2])
            \o WithoutOverlaps(text, windows, overlap, i + 1)

\* C15: for a text longer than chunk_size the call returns; the windows of
\* the chunks start at the beginning of the text, reach its end and leave
\* no gap; each window after the first starts exactly `overlap` characters
\* before the end of the one before; every chunk is its window, trimmed;
\* and the windows put together with the overlaps removed are the text.
C15_ChunkReconstruction ==
    (args.op = "_chunk_text" /\ Len(args.text) > args.chunk_size
       /\ args.chunk_size > 0) =>
        /\ \A i, j \in DOMAIN ret.windows : i # j => ret.windows[i][1] # ret.windows[j][1]
        /\ ret.pc = "returned" =>
              /\ ret.windows[1][1] = 0
              /\ ret.windows[Len(ret.windows)][2] >= Len(args.text)
              /\ \A i \in 1..(Len(ret.windows) - 1) :
                    /\ ret.windows[i + 1][1] <= ret.windows[i][2]
                    /\ ret.windows[i + 1][1] = ret.windows[i][2] - args.overlap
              /\ \A i \in DOMAIN ret.chunks :
                    ret.chunks[i]
                       = Strip(Slice(args.text, ret.windows[i][1], ret.windows[i][2]))
              /\ WithoutOverlaps(args.text, ret.windows, args.overlap, 1) = args.text

(* ------------------- the semantic engine on its own -------------------- *)
\* messages handed to index_messages: three 1200-character texts under a
\* new id (no terminator, a '.' at index 300, a '.' at index 100), a short
\* text under that id, and message m1 with its text rewritten
EngineMessages ==
    { [id |-> "m3", subject |-> "Report", date |-> "2024-01-03", text |-> t] :
        t \in {Repeat("a", 1200), Marked(1200, 300, "."),
               Marked(1200, 100, "."), "short note"} }
    \cup { [id |-> "m1", subject |-> "paypa1 Act Now", date |-> "2024-01-01",
            text |-> "rewritten"] }
EngineQueries == {"a", "ab", "abc"}
EngineTopKs == {1, 2, 5}

\* SemanticSearchEngine.index_messages on one message
IndexMessages(msg, on_existing) ==
    LET r == index_messages(collection, <<msg>>, on_existing) IN
    /\ args' = [op |-> "index_messages", message |-> msg, before |-> collection]
    /\ collection' = r.collection
    /\ ret' = r.returns
    /\ UNCHANGED <<settings, execution_counter, executions,
                   execution, call, db, clock, running, remote_counter, faults>>

\* SemanticSearchEngine.search: count() raises on a handle whose collection
\* is gone; the query is embedded only past the empty check
Search(query, top_k) ==
    /\ args' = [op |-> "search", query |-> query, top_k |-> top_k,
                before |-> collection]
    /\ ret' = IF collection = StaleHandle THEN Raised
              ELSE [results |-> search(collection, query, top_k),
                    encoded |-> Len(collection) # 0]
    /\ UNCHANGED <<settings, collection, execution_counter, executions,
                   execution, call, db, clock, running, remote_counter, faults>>

\* SemanticSearchEngine.reset_collection
ResetCollection(outcome) ==
    LET r == reset_collection(collection, outcome) IN
    /\ args' = [op |-> "reset_collection", before |-> collection]
    /\ collection' = r.collection
    /\ ret' = [success |-> r.returns]
    /\ UNCHANGED <<settings, execution_counter, executions,
                   execution, call, db, clock, running, remote_counter, faults>>

EngineNext ==
    \/ \E msg \in EngineMessages, on_existing \in OnExisting :
            IndexMessages(msg, on_existing)
    \/ \E query \in EngineQueries, top_k \in EngineTopKs : Search(query, top_k)
    \/ \E outcome \in ResetOutcomes : ResetCollection(outcome)

EngineSpec == ComponentInit /\ [][EngineNext]_vars

\* the stored records of a message, in stored order
RECURSIVE RecordsOf(_, _)
RecordsOf(coll, email_id) ==
    IF coll = <<>> THEN <<>>
    ELSE (IF Head(coll).email_id = email_id THEN <<Head(coll)>> ELSE <<>>)
            \o RecordsOf(Tail(coll), email_id)
\* an index_messages call on a message the collection held nothing of has
\* returned
IndexedAfresh ==
    /\ args.op = "index_messages"
    /\ ret # Raised
    /\ args.before # StaleHandle
    /\ RecordsOf(args.before, args.message.id) = <<>>
\* no '.' or newline past the halfway point of the windows [0, 500) and
\* [450, 950) of the text
NoLateBreak(text) ==
    \A p \in (252..500) \cup (702..950) :
        p <= Len(text) => SubSeq(text, p, p) \notin {".", "\n"}
ThreeChunksStored ==
    LET stored == RecordsOf(collection, args.message.id) IN
    /\ Len(stored) = 3
    /\ \A i \in 1..3 : /\ stored[i].chunk_index = i - 1
                       /\ stored[i].total_chunks = 3

C17_ReindexReplaces ==
    (args.op = "index_messages" /\ args.before # StaleHandle)
        => /\ ret # Raised
           /\ RecordsOf(collection, args.message.id) = ChunkRecords(args.message)

\* a search call on a handle whose collection exists has returned
Searched == args.op = "search" /\ args.before # StaleHandle
\* C18: search never raises for lack of entries: on an index with zero
\* entries it returns an empty sequence without embedding the query, and on
\* an index with n > 0 entries it returns exactly min(top_k, n) results,
\* each carrying the parent message id of a chunk of the index, no chunk
\* being returned twice.
C18_SearchCountAndParents ==
    Searched =>
        LET n == Len(args.before)
            hits == Take(NearestFrom(args.before, args.query, DOMAIN args.before),
                         args.top_k)
        IN /\ ret # Raised
           /\ n = 0 => (ret.results = <<>> /\ ~ret.encoded)
           /\ n > 0 =>
                /\ Len(ret.results) = Min(args.top_k, n)
                /\ Len(hits) = Len(ret.results)
                /\ \A i, j \in DOMAIN hits : i # j => hits[i] # hits[j]
                /\ \A i \in DOMAIN hits :
                        /\ hits[i] \in DOMAIN args.before
                        /\ ret.results[i].id = args.before[hits[i]].email_id
C18_Witness ==
    /\ Searched
    /\ Len(args.before) = 3
    /\ args.top_k = 5
    /\ Len(ret.results) = 3


\* C19: every SearchResult returned by search has a score in [0, 1]
\* (hundredths here), for every distance the cosine store can report; the
\* score decreases with the distance, so the results, returned by
\* increasing distance, are in non-increasing score order.
C19_ScoreInUnitInterval ==
    Searched =>
        \A i \in DOMAIN ret.results :
            /\ ret.results[i].score \in 0..100
            /\ \A j \in DOMAIN ret.results :
                    i <= j => ret.results[i].score >= ret.results[j].score

\* C20: reset_collection clears the index atomically: after a reset that
\* reports success the index is empty, so that every search returns an
\* empty sequence until the next index_messages; and no reset, neither one
\* that succeeds nor one that fails part-way, leaves the engine in a state
\* where search raises.
C20_ResetNeverBreaksSearch ==
    /\ (args.op = "reset_collection" /\ ret.success) => collection = <<>>
    /\ args.op = "search" => ret # Raised

(* ----------------------- the RAG engine on its own --------------------- *)
\* the questions put to answer_question and the top_k they come with
RagQuestions == {"why", "when", "where"}
RagTopKs == {1, 2, 5}
\* the messages indexed between two questions
RagMessages == {m \in EngineMessages : Len(m.text) <= SnippetMax}

\* RAGEngine.answer_question; ret also keeps its locals search_results and
\* context, and whether _call_llm was reached
AnswerQuestion(question, top_k, llm_ok) ==
    LET search_results == search(collection, question, top_k) IN
    /\ args' = [op |-> "answer_question", question |-> question, top_k |-> top_k,
                llm_ok |-> llm_ok, before |-> collection]
    /\ ret' = [response |-> answer_question(collection, settings, question,
                                            top_k, llm_ok),
               search_results |-> search_results,
               context |-> IF search_results = <<>> THEN <<>>
                           ELSE _build_context(search_results),
               llm_called |-> search_results # <<>>]
    /\ UNCHANGED <<settings, collection, execution_counter, executions,
                   execution, call, db, clock, running, remote_counter, faults>>

RagNext ==
    \/ \E question \in RagQuestions, top_k \in RagTopKs, llm_ok \in BOOLEAN :
            AnswerQuestion(question, top_k, llm_ok)
    \/ \E msg \in RagMessages, on_existing \in OnExisting :
            IndexMessages(msg, on_existing)

RagSpec == Init /\ [][RagNext]_vars

\* an answer_question call has returned
Answered == args.op = "answer_question"

\* C21: the citations returned by answer_question are derived one-to-one,
\* in the same order, from the search results that the context handed to
\* the generator was built from (same id, subject, date, snippet), so they
\* are never more than top_k; when the search returns nothing the answer is
\* the fixed no-information text, there is no citation and the generator
\* is not called.
C21_CitationsGrounded ==
    Answered =>
        LET citations == ret.response.citations IN
        /\ Len(citations) = Len(ret.search_results)
        /\ Len(citations) = Len(ret.context)
        /\ Len(citations) <= args.top_k
        /\ \A i \in DOMAIN citations :
                /\ citations[i].id = ret.search_results[i].id
                /\ citations[i].subject = ret.search_results[i].subject
                /\ citations[i].date = ret.search_results[i].date
                /\ citations[i].snippet = ret.search_results[i].snippet
                /\ ret.context[i].label = i
                /\ ret.context[i].subject = citations[i].subject
                /\ ret.context[i].date = citations[i].date
                /\ ret.context[i].content = citations[i].snippet
        /\ ret.llm_called =>
                ret.response.answer.kind \in
                    {"generated", "llm_unavailable_message", "fallback"}
        /\ ret.search_results = <<>> =>
                /\ ret.response.answer.kind = "no_results"
                /\ citations = <<>>
                /\ ~ret.llm_called
C21_Witness ==
    /\ Answered
    /\ args.top_k = 2
    /\ Len(ret.response.citations) = 2
    /\ ret.response.answer.kind = "generated"

\* C22: whenever no text-generation provider is configured, or the call of
\* the provider fails, the answer of answer_question is the raw retrieved
\* context with the note that generation is unavailable: it never lacks
\* the retrieved context.
C22_FallbackCarriesContext ==
    (Answered /\ ret.search_results # <<>>
        /\ (~settings.llm_available \/ ~args.llm_ok))
        => /\ ret.response.answer.kind = "fallback"
           /\ ret.response.answer.context = ret.context

(* ------------- the local workflow beside the index endpoint ------------ *)
\* requests whose query the search step rewrites ('urgent') or leaves alone,
\* with and without RAG
FlowRequests ==
    { [query |-> "urgent bills", top_k |-> 2, enable_rag |-> TRUE],
      [query |-> "find notes", top_k |-> 3, enable_rag |-> TRUE],
      [query |-> "find notes", top_k |-> 3, enable_rag |-> FALSE] }
\* the message the index endpoint is asked to index meanwhile
FlowMessages == {m \in EngineMessages : m.id = "m3" /\ Len(m.text) <= SnippetMax}

\* the /index handler runs while a workflow is suspended in its gather,
\* after its search step and before its RAG task
IndexDuringGather(msg) ==
    /\ running = NoCall
    /\ \E e \in Calls : call[e].pc = "gather" /\ call[e].rag_step = NoStep
    /\ collection' = index_messages(collection, <<msg>>, "ignore").collection
    /\ collection' # collection
    /\ UNCHANGED <<args, ret, settings, execution_counter, executions,
                   execution, call, db, clock, running, remote_counter, faults>>

FlowNext ==
    \/ \E e \in Calls, request \in FlowRequests : ExecuteWorkflow(e, request)
    \/ \E e \in Calls : LocalCreate(e)
    \/ \E e \in Calls : StepIntent(e)
    \/ \E e \in Calls, outcome \in Outcomes : StepSearch(e, outcome)
    \/ \E e \in Calls : SearchFailed(e)
    \/ \E e \in Calls : GatherStart(e)
    \/ \E e \in Calls, outcome \in Outcomes : ClassifyOnly(e, outcome)
    \/ \E e \in Calls, outcome \in Outcomes : BranchClassify(e, outcome)
    \/ \E e \in Calls, outcome \in RagOutcomes : BranchRag(e, outcome)
    \/ \E e \in Calls : Join(e)
    \/ \E e \in Calls : AppendBranches(e)
    \/ \E e \in Calls, outcome \in Outcomes : StepThreat(e, outcome)
    \/ \E e \in Calls, outcome \in DbOutcomes : StepPersist(e, outcome)
    \/ \E e \in Calls : Complete(e)
    \/ \E msg \in FlowMessages : IndexDuringGather(msg)

FlowSpec == ComponentInit /\ [][FlowNext]_vars

\* C23: within one execution the RAG step consumes the search results the
\* search step produced: every citation in execution.result is, position by
\* position, an entry of execution.result.search_results (same id, subject,
\* date, snippet), also when the search step ran on a rewritten query or
\* the index was written between the search step and the RAG step.
C23_CitationsAreSearchResults ==
    \A e \in Calls :
        (Constructed(e) /\ Local(e) /\ execution[e].result # NoResult
            /\ "citations" \in DOMAIN execution[e].result) =>
            LET citations == execution[e].result.citations
                search_results == execution[e].result.search_results
            IN \A i \in DOMAIN citations :
                    /\ i \in DOMAIN search_results
                    /\ citations[i].id = search_results[i].id
                    /\ citations[i].subject = search_results[i].subject
                    /\ citations[i].date = search_results[i].date
                    /\ citations[i].snippet = search_results[i].snippet

(* ------------------ the chunker: progress and trimming ----------------- *)
\* C24: the chunker terminates for every text and every chunk_size and
\* overlap with 1 <= overlap < chunk_size: each iteration of the loop moves
\* the window start strictly forward, also when the chunk is cut at a
\* sentence terminator or newline just past the halfway point.
C24_StartAdvances ==
    [][(/\ args.op = "_chunk_text"
        /\ 1 <= args.overlap /\ args.overlap < args.chunk_size
        /\ ret.pc = "loop" /\ ret'.pc = "loop")
          => ret'.start > ret.start]_vars

\* C26: every chunk the chunker returns is non-empty and has no leading or
\* trailing whitespace, for every input text: a text no longer than
\* chunk_size, returned as the only chunk, and a text with a run of
\* whitespace as long as a window included.
C26_ChunksNonEmptyTrimmed ==
    (args.op = "_chunk_text" /\ ret.pc = "returned") =>
        \A i \in DOMAIN ret.chunks :
            /\ ret.chunks[i] # ""
            /\ Strip(ret.chunks[i]) = ret.chunks[i]

(* --------------------------- the step list ----------------------------- *)
\* seq is a prefix of longer
IsPrefix(seq, longer) ==
    /\ Len(seq) <= Len(longer)
    /\ \A i \in DOMAIN seq : seq[i] = longer[i]

MatchingUrls(body) ==
    LET urls == FindUrls(Lower(body), 1) IN
    {urls[i] : i \in {k \in DOMAIN urls : IsMaliciousUrl(urls[k])}}
IsUrlIndicator(ind) == ind.type = "suspicious_url"

\* C27: the number of suspicious_url indicators and the number of 0.25
\* increments of the score both equal the number of distinct URLs of the
\* body that match at least one malicious pattern: a URL that matches
\* several patterns counts once, and so does a URL that occurs several
\* times in the body.
C27_OneIndicatorPerDistinctUrl ==
    Analyzed =>
        LET distinct == Cardinality(MatchingUrls(args.email.body))
            others == SelectSeq(ret.indicators, LAMBDA ind : ~IsUrlIndicator(ind))
        IN /\ Len(SelectSeq(ret.indicators, IsUrlIndicator)) = distinct
           /\ ret.threat_score = Min(SumContributions(others) + 25 * distinct, 100)

(* --------------------- intent detection on its own --------------------- *)
\* the words the queries are made of: keywords of each rule, in either
\* case, and words of no rule
IntentWords ==
    { "summarize", "Overview", "what are", "count", "HOW MANY", "analyze",
      "who", "from", "Sender", "when", "date", "find", "emails" }
\* the queries of TestIntentDetection.test_intent_variations
IntentTestQueries ==
    { "summarize my emails", "what are my recent emails",
      "count the emails from john", "how many emails today",
      "when did alice email me", "find emails from bob",
      "search for meeting notes", "find urgent emails" }
IntentQueries ==
    {w1 \o " " \o w2 : w1, w2 \in IntentWords} \cup IntentTestQueries \cup {""}

\* _step_intent_detection(execution, query)
DetectIntentStep(query) ==
    /\ args' = [op |-> "_step_intent_detection", query |-> query]
    /\ ret' = _step_intent_detection(query)
    /\ UNCHANGED <<settings, collection, execution_counter, executions,
                   execution, call, db, clock, running, remote_counter, faults>>

IntentNext == \E query \in IntentQueries : DetectIntentStep(query)

IntentSpec == ComponentInit /\ [][IntentNext]_vars

\* the rule of an intent has a keyword in the query
RuleMatches(query, words) == \E w \in words : Contains(Lower(query), w)
SummarizationWords == {"summarize", "summary", "overview", "what are"}
AnalysisWords == {"count", "how many", "statistics", "analyze"}
SenderWords == {"who", "from", "sender"}
TemporalWords == {"when", "date", "time"}

\* C28: intent detection is total and deterministic: for every query the
\* intent step is COMPLETED and its intent_type is that of the first rule
\* with a keyword in the query, in the order summarization, analysis,
\* sender_analysis, temporal_search, and 'search' when no rule matches;
\* 'count the emails from john' is analysis and 'find emails from bob' is
\* sender_analysis.
C28_IntentFirstMatchingRule ==
    args.op = "_step_intent_detection" =>
        LET q == args.query
            intent_type == ret.metadata.intent_type
        IN /\ ret.step_id = "step_1_intent"
           /\ ret.status = COMPLETED
           /\ intent_type \in {"search", "summarization", "analysis",
                               "sender_analysis", "temporal_search"}
           /\ intent_type = "summarization" <=> RuleMatches(q, SummarizationWords)
           /\ intent_type = "analysis" <=>
                 /\ ~RuleMatches(q, SummarizationWords)
                 /\ RuleMatches(q, AnalysisWords)
           /\ intent_type = "sender_analysis" <=>
                 /\ ~RuleMatches(q, SummarizationWords \cup AnalysisWords)
                 /\ RuleMatches(q, SenderWords)
           /\ intent_type = "temporal_search" <=>
                 /\ ~RuleMatches(q, SummarizationWords \cup AnalysisWords \cup SenderWords)
                 /\ RuleMatches(q, TemporalWords)
           /\ q = "count the emails from john" => intent_type = "analysis"
           /\ q = "find emails from bob" => intent_type = "sender_analysis"
C28_Witness ==
    /\ args.op = "_step_intent_detection"
    /\ args.query = "count the emails from john"
    /\ ret.metadata.intent_type = "analysis"

(* ------------------- what the persistence step stores ------------------ *)
\* C29: the persistence step runs before the execution reaches its
\* terminal status: the record it hands to the store carries the status
\* RUNNING and a step count that leaves out the persistence step, every
\* stored row keeps the status RUNNING, which is never the status of the
\* execution returned to the caller, and an execution whose search step
\* failed is never stored.
C29_StoredWhileRunning ==
    [][\A e \in Calls :
          /\ (call[e].pc = "threat_done" /\ call'[e].pc = "persist_done") =>
                LET record == PersistedRecord(execution[e]) IN
                /\ record.status = RUNNING
                /\ record.steps = Len(execution'[e].steps) - 1
                /\ record.steps = Len(FullStepIds(call[e].enable_rag)) - 1
                /\ \A i \in DOMAIN db'.workflow_executions :
                      i > Len(db.workflow_executions) =>
                         /\ db'.workflow_executions[i].workflow_id
                               = execution[e].execution_id
                         /\ db'.workflow_executions[i].status = RUNNING
          /\ \A i \in DOMAIN db'.workflow_executions :
                LET row == db'.workflow_executions[i] IN
                /\ row.status = RUNNING
                /\ (execution'[e] # NoExecution
                        /\ execution'[e].execution_id = row.workflow_id) =>
                      /\ call'[e].pc = "returned" => execution'[e].status # row.status
                      /\ execution'[e].steps[2].status # ERROR]_vars
C29_Witness ==
    \E e \in Calls :
        /\ Returned(e) /\ Local(e) /\ execution[e].status = COMPLETED
        /\ \E i \in DOMAIN db.workflow_executions :
              /\ db.workflow_executions[i].workflow_id = execution[e].execution_id
              /\ db.workflow_executions[i].status = RUNNING

(* ------------------ the threat-detection step on its own --------------- *)
\* the search results the step is given, as _step_semantic_search builds
\* them (id, subject, date, score, snippet): a critical one, a safe one, one
\* that names a trusted company, one with a shortener link
ResultPool ==
    << [id |-> "m1", subject |-> "paypa1 Act Now", date |-> "2024-01-01",
        score |-> 95, snippet |-> "http://bit.ly/a http://1.2.3.4"],
       [id |-> "m2", subject |-> "Team sync", date |-> "2024-01-02",
        score |-> 40, snippet |-> "agenda"],
       [id |-> "m5", subject |-> "Your Amazon order", date |-> "2024-01-05",
        score |-> 35, snippet |-> "http://bit.ly/a again http://bit.ly/a"],
       [id |-> "m6", subject |-> "Re: invoice", date |-> "2024-01-06",
        score |-> -15, snippet |-> "Click https://bit.ly/verify-now"] >>
\* the longest result list handed to the step
MaxResults == 8
\* result lists of every length up to MaxResults, walking the pool from
\* position j in strides of k
ResultLists ==
    { [i \in 1..n |-> ResultPool[((j + i * k) % Len(ResultPool)) + 1]] :
        n \in 0..MaxResults, j \in 0..3, k \in 0..3 }

\* _step_threat_detection(execution, search_step)
ThreatStep(results, outcome) ==
    LET search_step == [WorkflowStep("step_2_search") EXCEPT
                           !.metadata = [results |-> results,
                                         result_count |-> Len(results),
                                         query |-> "find notes"],
                           !.status = COMPLETED]
    IN /\ args' = [op |-> "_step_threat_detection", results |-> results,
                   outcome |-> outcome]
       /\ ret' = [step |-> _step_threat_detection(search_step, outcome),
                  analyses |-> IF outcome = "ok" THEN ThreatAnalysesOf(search_step)
                               ELSE <<>>]
       /\ UNCHANGED <<settings, collection, execution_counter, executions,
                      execution, call, db, clock, running, remote_counter, faults>>

ThreatStepNext ==
    \E results \in ResultLists, outcome \in Outcomes : ThreatStep(results, outcome)

ThreatStepSpec == ComponentInit /\ [][ThreatStepNext]_vars

\* the threat step has analysed a result list
ThreatStepDone ==
    /\ args.op = "_step_threat_detection"
    /\ ret.step.status = COMPLETED

\* C30: the threat step analyses at most the first 5 search results, each
\* with an empty sender: the counts per level add up to min(5, number of
\* results), no analysis holds a suspicious_domain, domain-phishing or
\* spoofing indicator, and exactly the results rated WARNING or CRITICAL
\* are listed for persistence, in result order.
C30_ThreatStepTopFiveNoSender ==
    ThreatStepDone =>
        LET n == Len(args.results)
            summary == ret.step.metadata.threat_summary
            listed == ret.step.metadata.critical_threats
            serious == {i \in DOMAIN ret.analyses :
                            ret.analyses[i].threat_level \in {"WARNING", "CRITICAL"}}
        IN /\ \A r \in Range(args.results) : "from" \notin DOMAIN r
           /\ Len(ret.analyses) = Min(5, n)
           /\ summary["SAFE"] + summary["CAUTION"] + summary["WARNING"]
                 + summary["CRITICAL"] = Min(5, n)
           /\ \A i \in DOMAIN ret.analyses :
                 /\ ret.analyses[i].email_id = args.results[i].id
                 /\ \A k \in DOMAIN ret.analyses[i].indicators :
                       LET ind == ret.analyses[i].indicators[k] IN
                       /\ ~IsDomainIndicator(ind)
                       /\ ind.type # "spoofing"
           /\ Len(listed) = Cardinality(serious)
           /\ ret.step.metadata.threats_detected = Len(listed)
           /\ \A m \in DOMAIN listed :
                 /\ listed[m].threat_level \in {"WARNING", "CRITICAL"}
                 /\ \E i \in serious :
                       /\ listed[m].email_id = ret.analyses[i].email_id
                       /\ listed[m].threat_level = ret.analyses[i].threat_level
                       /\ Cardinality({h \in serious : h <= i}) = m
C30_Witness ==
    /\ ThreatStepDone
    /\ Len(args.results) = 7
    /\ Len(ret.analyses) = 5
    /\ ret.step.metadata.threat_summary["CRITICAL"] >= 1
    /\ ret.step.metadata.threat_summary["SAFE"] >= 1
    /\ \E i \in DOMAIN ret.analyses :
          /\ args.results[i].subject = "Your Amazon order"
          /\ ret.analyses[i].threat_level = "WARNING"

=============================================================================
